---- MODULE Spec2Model ----
(***************************************************************************)
(* Model of the live-session controller of LocalAI: the WebSocket control  *)
(* loop (WebSocketHandler), the per-utterance run goroutine                *)
(* (handleUserMessage, processModelResponses,                              *)
(* generateModelResponseWithReturn), the periodic flush goroutine of each  *)
(* agent turn, and the Orchestrator they share (package services).         *)
(*                                                                         *)
(* The text of an agent is a sequence of tokens: the k-th delta of a       *)
(* provider stream carries the text <<k>> (or the empty text), the         *)
(* stopped-by-user marker is the token 0; the text of an utterance is a    *)
(* sequence of characters.  A step of a goroutine runs from one read of    *)
(* the Orchestrator's flags to the next: each IsStopped / IsPaused test    *)
(* that decides what the goroutine does is the first thing of a step, so   *)
(* that a command can be processed between any two such tests.             *)
(*                                                                         *)
(* SpecCalls is the specification of the functions of package services     *)
(* called on their own, on arguments drawn from bounded sets.              *)
(* SpecProviders is the specification of the provider registry: the        *)
(* registrations of provider clients and the dispatches through it.        *)
(* SpecLive is the specification of one run whose goroutine is scheduled   *)
(* fairly, for what a run eventually does.                                 *)
(***************************************************************************)
EXTENDS Integers, Sequences, FiniteSets, TLC

(* ------------------------------ bounds -------------------------------- *)
\* user_message commands the client sends on the connection
MaxRuns == 2
\* pause / resume / stop / update_config commands the client sends
MaxCmds == 2
\* deltas the provider streams of one session deliver
MaxChunks == 2
\* largest autonomy_rounds value a session is configured with
MaxAutonomy == 1
\* agent turns (thinking events) of one session
MaxTurns == 3

\* words of an utterance given to ClassifyTask
MaxWords == 2
\* agents of a roster given to GetRespondingModels
MaxRoster == 2
\* entries of a mention list given to GetRespondingModels
MaxMentions == 2
\* pieces of a text given to StripMentions
MaxPieces == 3
MaxHistory == 3
MaxLines == 2
MaxTags == 2
MaxTokens == 2
MaxTime == 3
MaxSaved == 3

Runs == 1..MaxRuns

\* The sessions explored.  Each is given a number of user_message commands,
\* of other commands, of agent turns and of deltas: one turn under several
\* commands, the rounds of one run, and runs that overlap.
Budgets ==
    { [runs |-> 1, cmds |-> MaxCmds, turns |-> 1, deltas |-> MaxChunks],
      [runs |-> 1, cmds |-> 1, turns |-> MaxTurns, deltas |-> 1],
      [runs |-> MaxRuns, cmds |-> 1, turns |-> 2, deltas |-> 0] }

(* ------------------------------ data ---------------------------------- *)
RolePlanner == "planner"
RoleCoder == "coder"
RoleReviewer == "reviewer"
RoleGeneral == "general"

CfgA == [ShortID |-> "a", Name |-> "Alpha", Role |-> RoleCoder]
CfgB == [ShortID |-> "b", Name |-> "Beta", Role |-> RoleReviewer]

\* the rosters the sessions table holds for this session
Rosters == {<<CfgA>>, <<CfgA, CfgB>>}

\* Text is a sequence of characters.  user_message inputs: the utterance
\* and the mention list sent with it (allMentions)
UserMessages ==
    { [content |-> <<"h", "i">>, mentions |-> <<>>],
      [content |-> <<"@", "[", "B", "e", "t", "a", "]", " ", "h", "i">>,
       mentions |-> <<"ALL", "Beta">>] }

\* strings.ToLower on the names that occur
Lower(s) ==
    CASE s = "ALL" -> "all"
      [] s = "Alpha" -> "alpha"
      [] s = "Beta" -> "beta"
      [] s = "A" -> "a"
      [] s = "B" -> "b"
      [] s = "All" -> "all"
      [] s = "BETA" -> "beta"
      [] s = "Gamma" -> "gamma"
      [] s = "Delta" -> "delta"
      [] s = "Coda" -> "coda"
      [] OTHER -> s

EqualFold(x, y) == Lower(x) = Lower(y)

\* the suffix appended to a stopped turn's partial text
StoppedMarker == <<0>>

NoPend == [text |-> <<>>, done |-> FALSE]

NoGate == [seen |-> FALSE, rounds |-> 0, roster |-> <<>>, stopped |-> FALSE]

\* the deltas a provider can deliver as the n-th delta of a stream
Deltas(n) ==
    { [text |-> <<n>>, done |-> FALSE], [text |-> <<n>>, done |-> TRUE],
      [text |-> <<>>, done |-> TRUE] }

IdleRun ==
    [pc |-> "idle", msg |-> [content |-> <<>>, mentions |-> <<>>],
     models |-> <<>>, prompt |-> <<>>, idx |-> 1, round |-> 0,
     full |-> <<>>, err |-> "none", callCtx |-> 0, pend |-> NoPend,
     nDelta |-> 0, ctlAt |-> 0]

Streaming == {"stream", "cbChk", "cbAppend"}

NoCall == [fn |-> "none", arg |-> <<>>, out |-> <<>>]

(* ----------------------------- state ---------------------------------- *)
VARIABLES
    stopRequested,   \* Orchestrator.stopRequested
    pauseRequested,  \* Orchestrator.pauseRequested
    ctx,             \* Orchestrator.ctx: the id of the current context
    cancelled,       \* the contexts whose cancel function has been called
    ModelConfigs,    \* Orchestrator.ModelConfigs
    AutonomyRounds,  \* Orchestrator.AutonomyRounds
    History,         \* Orchestrator.History
    events,          \* per run: what it and its flush goroutines have written to
                     \* the connection, in the order of the writes
    ctl,             \* what the control loop has written to the connection
    providers,       \* Providers.providers: the names registered
    nRuns,           \* user_message commands processed
    nCmds,           \* other commands processed
    run,             \* per run goroutine: position and locals
    turns,           \* per run: the agent turns it started (closure state)
    sessionPaused,   \* history: a pause was processed, no resume or stop since
    stopSeen,        \* history: runs during which a stop was processed
    snap,            \* history: roster and autonomyRounds when the run began
    gateAt,          \* history: what held when the run's round 0 ended
    budget,          \* the commands, turns and deltas this session goes through
    nDeltas,         \* deltas the providers have delivered
    call             \* the latest call of a function of package services made on
                     \* its own: the function, its arguments and its result

vars == <<stopRequested, pauseRequested, ctx, cancelled, ModelConfigs,
          AutonomyRounds, History, events, ctl, nRuns, nCmds, run, turns,
          sessionPaused, stopSeen, snap, gateAt, budget, nDeltas, call,
          providers>>

orchFlags == <<stopRequested, pauseRequested, ctx, cancelled>>
orchCfg == <<ModelConfigs, AutonomyRounds>>
client == <<ctl, nRuns, nCmds, budget, nDeltas>>
ghost == <<sessionPaused, stopSeen, snap, gateAt>>

(* NewOrchestrator, LoadHistory of an empty session, the "ready" event *)
Start ==
    /\ stopRequested = FALSE
    /\ pauseRequested = FALSE
    /\ ctx = 0
    /\ cancelled = {}
    /\ ModelConfigs = <<CfgA, CfgB>>
    /\ AutonomyRounds \in 0..MaxAutonomy
    /\ History = <<>>
    /\ events = [r \in Runs |-> <<>>]
    /\ ctl = <<"ready">>
    /\ nRuns = 0
    /\ nCmds = 0
    /\ run = [r \in Runs |-> IdleRun]
    /\ turns = [r \in Runs |-> <<>>]
    /\ sessionPaused = FALSE
    /\ stopSeen = {}
    /\ snap = [r \in Runs |-> [roster |-> <<>>, rounds |-> 0]]
    /\ gateAt = [r \in Runs |-> NoGate]
    /\ nDeltas = 0
    /\ call = NoCall
    /\ providers = {"ollama"}

Init == Start /\ budget \in Budgets

(* ------------------------------ text ---------------------------------- *)
\* strings.ToLower, character by character
LowerChar(c) ==
    CASE c = "A" -> "a"
      [] c = "B" -> "b"
      [] c = "C" -> "c"
      [] c = "D" -> "d"
      [] c = "E" -> "e"
      [] c = "F" -> "f"
      [] c = "G" -> "g"
      [] c = "H" -> "h"
      [] c = "I" -> "i"
      [] c = "J" -> "j"
      [] c = "K" -> "k"
      [] c = "L" -> "l"
      [] c = "M" -> "m"
      [] c = "N" -> "n"
      [] c = "O" -> "o"
      [] c = "P" -> "p"
      [] c = "Q" -> "q"
      [] c = "R" -> "r"
      [] c = "S" -> "s"
      [] c = "T" -> "t"
      [] c = "U" -> "u"
      [] c = "V" -> "v"
      [] c = "W" -> "w"
      [] c = "X" -> "x"
      [] c = "Y" -> "y"
      [] c = "Z" -> "z"
      [] OTHER -> c

ToLower(s) == [i \in 1..Len(s) |-> LowerChar(s[i])]

\* strings.Contains
Contains(s, sub) ==
    \E i \in 1..(Len(s) - Len(sub) + 1) : SubSeq(s, i, i + Len(sub) - 1) = sub

\* the white space of the texts modelled
IsSpace(c) == c \in {" ", "\t", "\n", "\r"}

\* strings.TrimSpace
RECURSIVE TrimLeft(_)
TrimLeft(s) == IF s # <<>> /\ IsSpace(Head(s)) THEN TrimLeft(Tail(s)) ELSE s

RECURSIVE TrimRight(_)
TrimRight(s) ==
    IF s # <<>> /\ IsSpace(s[Len(s)]) THEN TrimRight(SubSeq(s, 1, Len(s) - 1))
    ELSE s

TrimSpace(s) == TrimRight(TrimLeft(s))

\* the first index from i on that holds no white space (\s*)
RECURSIVE SkipSpaces(_, _)
SkipSpaces(s, i) ==
    IF i <= Len(s) /\ IsSpace(s[i]) THEN SkipSpaces(s, i + 1) ELSE i

\* the first index from i on that holds "]", 0 when there is none
RECURSIVE FirstClose(_, _)
FirstClose(s, i) ==
    IF i > Len(s) THEN 0
    ELSE IF s[i] = "]" THEN i ELSE FirstClose(s, i + 1)

\* the last index of the match of `@\[[^\]]+\]\s*` that begins at i, 0 when
\* none begins there
MentionEnd(s, i) ==
    IF i + 1 <= Len(s) /\ s[i] = "@" /\ s[i + 1] = "["
    THEN LET j == FirstClose(s, i + 2) IN
         IF j >= i + 3 THEN SkipSpaces(s, j + 1) - 1 ELSE 0
    ELSE 0

\* re.ReplaceAllString(content, ""): the matches, found from left to right
\* without overlap, are removed
RECURSIVE ReplaceAllMentions(_, _)
ReplaceAllMentions(s, i) ==
    IF i > Len(s) THEN <<>>
    ELSE LET e == MentionEnd(s, i) IN
         IF e > 0 THEN ReplaceAllMentions(s, e + 1)
         ELSE <<s[i]>> \o ReplaceAllMentions(s, i + 1)

\* StripMentions: the bracketed mentions removed, then strings.TrimSpace
StripMentions(content) == TrimSpace(ReplaceAllMentions(content, 1))

\* the characters of a bare-word mention: [\w.-]
NameChars ==
    { "a", "b", "c", "d", "e", "f", "g", "h", "i", "j", "k", "l", "m",
      "n", "o", "p", "q", "r", "s", "t", "u", "v", "w", "x", "y", "z",
      "A", "B", "C", "D", "E", "F", "G", "H", "I", "J", "K", "L", "M",
      "N", "O", "P", "Q", "R", "S", "T", "U", "V", "W", "X", "Y", "Z",
      "0", "1", "2", "3", "4", "5", "6", "7", "8", "9", "_", ".", "-" }


\* the submatches of `@\[([^\]]+)\]` in s from i on, found from left to
\* right without overlap
RECURSIVE BracketMatches(_, _)
BracketMatches(s, i) ==
    IF i > Len(s) THEN <<>>
    ELSE LET j == IF i + 1 <= Len(s) /\ s[i] = "@" /\ s[i + 1] = "["
                  THEN FirstClose(s, i + 2) ELSE 0 IN
         IF j >= i + 3 THEN <<SubSeq(s, i + 2, j - 1)>> \o BracketMatches(s, j + 1)
         ELSE BracketMatches(s, i + 1)

\* the first index from i on that holds no character of [\w.-]
RECURSIVE WordEnd(_, _)
WordEnd(s, i) ==
    IF i <= Len(s) /\ s[i] \in NameChars THEN WordEnd(s, i + 1) ELSE i

\* the submatches of `@([\w.-]+)` in s from i on
RECURSIVE WordMatches(_, _)
WordMatches(s, i) ==
    IF i > Len(s) THEN <<>>
    ELSE LET e == IF s[i] = "@" THEN WordEnd(s, i + 1) ELSE 0 IN
         IF e > i + 1 THEN <<SubSeq(s, i + 1, e - 1)>> \o WordMatches(s, e)
         ELSE WordMatches(s, i + 1)

\* the loop over seen: the first entry of each lower-case form is kept
RECURSIVE Unique(_, _)
Unique(mentioned, seen) ==
    IF mentioned = <<>> THEN <<>>
    ELSE LET lower == ToLower(Head(mentioned)) IN
         IF lower \in seen THEN Unique(Tail(mentioned), seen)
         ELSE <<Head(mentioned)>> \o Unique(Tail(mentioned), seen \cup {lower})

MentionAll == <<"a", "l", "l">>

\* the list before the loop over seen
RawMentions(content) ==
    (IF Contains(ToLower(content), <<"@">> \o MentionAll) THEN <<MentionAll>> ELSE <<>>)
    \o BracketMatches(content, 1)
    \o SelectSeq(WordMatches(content, 1), LAMBDA m : ToLower(m) # MentionAll)

ExtractMentionsFromUserMessage(content) == Unique(RawMentions(content), {})

\* handleUserMessage: allMentions := append(mentionedModels, contentMentions...)
AllMentions(mentionedModels, content) ==
    mentionedModels \o ExtractMentionsFromUserMessage(content)

planningKeywords ==
    << <<"p", "l", "a", "n">>, <<"p", "l", "a", "n", "n", "i", "n", "g">>, <<"b", "r", "a", "i", "n", "s", "t", "o", "r", "m">>,
       <<"i", "d", "e", "a", "s">>, <<"t", "h", "i", "n", "k", " ", "a", "b", "o", "u", "t">>, <<"d", "e", "s", "i", "g", "n">>,
       <<"a", "r", "c", "h", "i", "t", "e", "c", "t">>, <<"s", "t", "r", "a", "t", "e", "g", "y">>, <<"a", "p", "p", "r", "o", "a", "c", "h">>,
       <<"o", "u", "t", "l", "i", "n", "e">>, <<"w", "h", "a", "t", " ", "s", "h", "o", "u", "l", "d">>, <<"h", "o", "w", " ", "s", "h", "o", "u", "l", "d">>,
       <<"l", "e", "t", "'", "s", " ", "d", "i", "s", "c", "u", "s", "s">>, <<"t", "h", "i", "n", "k", " ", "t", "h", "r", "o", "u", "g", "h">>, <<"c", "o", "n", "s", "i", "d", "e", "r">>,
       <<"p", "r", "o", "p", "o", "s", "e">>, <<"s", "u", "g", "g", "e", "s", "t">>, <<"r", "e", "c", "o", "m", "m", "e", "n", "d", "a", "t", "i", "o", "n">> >>

codingKeywords ==
    << <<"c", "o", "d", "e">>, <<"c", "o", "d", "i", "n", "g">>, <<"i", "m", "p", "l", "e", "m", "e", "n", "t">>,
       <<"w", "r", "i", "t", "e">>, <<"b", "u", "i", "l", "d">>, <<"c", "r", "e", "a", "t", "e">>,
       <<"f", "u", "n", "c", "t", "i", "o", "n">>, <<"c", "l", "a", "s", "s">>, <<"m", "e", "t", "h", "o", "d">>,
       <<"a", "p", "i">>, <<"e", "n", "d", "p", "o", "i", "n", "t">>, <<"d", "a", "t", "a", "b", "a", "s", "e">>,
       <<"f", "i", "x", " ", "b", "u", "g">>, <<"d", "e", "b", "u", "g">>, <<"r", "e", "f", "a", "c", "t", "o", "r">>,
       <<"p", "r", "o", "g", "r", "a", "m">>, <<"s", "c", "r", "i", "p", "t">>, <<"d", "e", "v", "e", "l", "o", "p">>,
       <<"h", "t", "m", "l">>, <<"c", "s", "s">>, <<"j", "a", "v", "a", "s", "c", "r", "i", "p", "t">>,
       <<"p", "y", "t", "h", "o", "n">>, <<"g", "o">>, <<"s", "w", "i", "f", "t">>,
       <<"r", "e", "a", "c", "t">> >>

reviewKeywords ==
    << <<"r", "e", "v", "i", "e", "w">>, <<"c", "h", "e", "c", "k">>, <<"a", "n", "a", "l", "y", "z", "e">>,
       <<"e", "v", "a", "l", "u", "a", "t", "e">>, <<"a", "s", "s", "e", "s", "s">>, <<"f", "e", "e", "d", "b", "a", "c", "k">>,
       <<"i", "m", "p", "r", "o", "v", "e">>, <<"o", "p", "t", "i", "m", "i", "z", "e">>, <<"c", "r", "i", "t", "i", "q", "u", "e">>,
       <<"l", "o", "o", "k", " ", "a", "t">>, <<"w", "h", "a", "t", "'", "s", " ", "w", "r", "o", "n", "g">>, <<"f", "i", "n", "d", " ", "i", "s", "s", "u", "e", "s">>,
       <<"b", "u", "g", "s", " ", "i", "n">> >>

\* for _, kw := range keywords { if strings.Contains(contentLower, kw) { score++ } }
Score(contentLower, keywords) ==
    Cardinality({i \in 1..Len(keywords) : Contains(contentLower, keywords[i])})

\* a tie for the highest score goes to the first of the tied categories
ClassifyTaskTieFirst(content) ==
    LET contentLower == ToLower(content)
        planningScore == Score(contentLower, planningKeywords)
        codingScore == Score(contentLower, codingKeywords)
        reviewScore == Score(contentLower, reviewKeywords)
    IN  IF planningScore >= codingScore /\ planningScore >= reviewScore
           /\ planningScore > 0 THEN RolePlanner
        ELSE IF codingScore >= planningScore /\ codingScore >= reviewScore
                /\ codingScore > 0 THEN RoleCoder
        ELSE IF reviewScore >= planningScore /\ reviewScore >= codingScore
                /\ reviewScore > 0 THEN RoleReviewer
        ELSE RoleGeneral

ClassifyTask(content) ==
    LET contentLower == ToLower(content)
        planningScore == Score(contentLower, planningKeywords)
        codingScore == Score(contentLower, codingKeywords)
        reviewScore == Score(contentLower, reviewKeywords)
    IN  IF planningScore > codingScore /\ planningScore > reviewScore
           /\ planningScore > 0 THEN RolePlanner
        ELSE IF codingScore > planningScore /\ codingScore > reviewScore
                /\ codingScore > 0 THEN RoleCoder
        ELSE IF reviewScore > planningScore /\ reviewScore > codingScore
                /\ reviewScore > 0 THEN RoleReviewer
        ELSE RoleGeneral

(* --------------------------- pure helpers ----------------------------- *)
Ev(type, r, k, model, round, content, tokens) ==
    [type |-> type, run |-> r, turn |-> k, model |-> model, round |-> round,
     content |-> content, tokens |-> tokens]

\* the first roster member, whatever its role
FirstWithHead(configs, role) == 1

FirstWith(configs, role) ==
    CHOOSE i \in 1..Len(configs) :
        /\ configs[i].Role = role
        /\ \A j \in 1..(i - 1) : configs[j].Role # role

HasRole(configs, role) == \E i \in 1..Len(configs) : configs[i].Role = role

\* a mention is compared with the short id only
MentionedByShortID(c, mentioned) ==
    \E i \in 1..Len(mentioned) : EqualFold(c.ShortID, mentioned[i])

Mentioned(c, mentioned) ==
    \E i \in 1..Len(mentioned) :
        EqualFold(c.ShortID, mentioned[i]) \/ EqualFold(c.Name, mentioned[i])

\* "all" is recognised in lower case only
GetRespondingModelsAllExact(configs, mentioned, taskRole) ==
    IF Len(configs) = 0 THEN configs
    ELSE IF \E i \in 1..Len(mentioned) : mentioned[i] = "all" THEN configs
    ELSE LET responding == SelectSeq(configs, LAMBDA c : Mentioned(c, mentioned))
         IN IF Len(mentioned) > 0 /\ Len(responding) > 0 THEN responding
            ELSE IF HasRole(configs, taskRole)
                 THEN <<configs[FirstWith(configs, taskRole)]>>
            ELSE IF HasRole(configs, RoleGeneral)
                 THEN <<configs[FirstWith(configs, RoleGeneral)]>>
            ELSE <<configs[1]>>

GetRespondingModels(configs, mentioned, taskRole) ==
    IF Len(configs) = 0 THEN configs
    ELSE IF \E i \in 1..Len(mentioned) : EqualFold(mentioned[i], "all") THEN configs
    ELSE LET responding == SelectSeq(configs, LAMBDA c : Mentioned(c, mentioned))
         IN IF Len(mentioned) > 0 /\ Len(responding) > 0 THEN responding
            ELSE IF HasRole(configs, taskRole)
                 THEN <<configs[FirstWith(configs, taskRole)]>>
            ELSE IF HasRole(configs, RoleGeneral)
                 THEN <<configs[FirstWith(configs, RoleGeneral)]>>
            ELSE <<configs[1]>>

\* the stream restarted: the text begins again with each delta
AppendChunkRestart(full, chunk) == chunk

\* fullResponse += chunk
AppendChunk(full, chunk) == full \o chunk

\* the turn is put before the turns of the history
AddToHistoryFront(history, msg) == <<msg>> \o history

\* AddToHistory: o.History = append(o.History, msg)
AddToHistory(history, msg) == Append(history, msg)

\* the number of agent turns started in the session
RECURSIVE SumLen(_, _)
SumLen(f, S) ==
    IF S = {} THEN 0
    ELSE LET x == CHOOSE y \in S : TRUE IN Len(f[x]) + SumLen(f, S \ {x})

TurnsStarted == SumLen(turns, Runs)

\* run r has made its Reset and has not ended
Active(r) == run[r].pc \notin {"idle", "begin", "done"}

(* ------------------------- the agent turns ---------------------------- *)
\* The closure state of one call of generateModelResponseWithReturn that got
\* past its first IsStopped check: chunkBuffer, totalTokens and the flush
\* goroutine (tpc, live = the ticker has not been stopped).  The other fields
\* are history: the dispatches made for the turn and the partial text when a
\* stop, and when the latest pause, was processed during the stream.
NewTurn(model, round, prompt) ==
    [model |-> model, round |-> round, prompt |-> prompt, buf |-> <<>>, tokens |-> 0,
     tpc |-> "none", live |-> FALSE,
     dispatches |-> 0, stopMid |-> FALSE, stopText |-> <<>>,
     pauseMid |-> FALSE, pauseText |-> <<>>]

Cur(r) == Len(turns[r])
CurTurn(r) == turns[r][Cur(r)]

Emit(r, e) == events' = [events EXCEPT ![r] = Append(@, e)]

(* ------------------------- the control loop --------------------------- *)
\* case "user_message": go handleUserMessage(...); ctlAt is history: how
\* many answers the control loop had written when it read the command
UserMessage ==
    /\ nRuns < budget.runs
    /\ \E m \in UserMessages :
        run' = [run EXCEPT ![nRuns + 1] =
                    [IdleRun EXCEPT !.pc = "begin", !.msg = m, !.ctlAt = Len(ctl)]]
    /\ nRuns' = nRuns + 1
    /\ UNCHANGED <<call, providers, orchFlags, orchCfg, History, events, ctl, nCmds, turns,
                   ghost, budget, nDeltas>>

\* the history fields a pause sets in the turn whose stream is in flight
MarkPause(r, t) ==
    IF run[r].pc \in Streaming
    THEN [t EXCEPT !.pauseMid = TRUE, !.pauseText = run[r].full]
    ELSE t

\* case "pause": orch.Pause(); WriteJSON(paused)
Pause ==
    /\ nCmds < budget.cmds
    /\ nCmds' = nCmds + 1
    /\ pauseRequested' = TRUE
    /\ ctl' = Append(ctl, "paused")
    /\ sessionPaused' = TRUE
    /\ turns' = [r \in Runs |->
                    [k \in 1..Len(turns[r]) |->
                        IF k = Len(turns[r]) THEN MarkPause(r, turns[r][k])
                        ELSE turns[r][k]]]
    /\ UNCHANGED <<call, providers, stopRequested, ctx, cancelled, orchCfg, History, events,
                   nRuns, run, stopSeen, snap, gateAt, budget, nDeltas>>

\* a resume that clears the stop flag as well
ResumeClearsStop ==
    /\ nCmds < budget.cmds
    /\ nCmds' = nCmds + 1
    /\ pauseRequested' = FALSE
    /\ stopRequested' = FALSE
    /\ ctl' = Append(ctl, "resumed")
    /\ sessionPaused' = FALSE
    /\ UNCHANGED <<call, providers, ctx, cancelled, orchCfg, History, events,
                   nRuns, run, turns, stopSeen, snap, gateAt, budget, nDeltas>>

\* case "resume": orch.Resume(); WriteJSON(resumed)
Resume ==
    /\ nCmds < budget.cmds
    /\ nCmds' = nCmds + 1
    /\ pauseRequested' = FALSE
    /\ ctl' = Append(ctl, "resumed")
    /\ sessionPaused' = FALSE
    /\ UNCHANGED <<call, providers, stopRequested, ctx, cancelled, orchCfg, History, events,
                   nRuns, run, turns, stopSeen, snap, gateAt, budget, nDeltas>>

\* the history fields a stop sets in the turn whose stream is in flight
MarkStop(r, t) ==
    IF run[r].pc \in Streaming /\ ~t.stopMid
    THEN [t EXCEPT !.stopMid = TRUE, !.stopText = run[r].full]
    ELSE t

\* case "stop": orch.Stop(); WriteJSON(stopped)
Stop ==
    /\ nCmds < budget.cmds
    /\ nCmds' = nCmds + 1
    /\ stopRequested' = TRUE
    /\ cancelled' = cancelled \cup {ctx}
    /\ ctl' = Append(ctl, "stopped")
    /\ sessionPaused' = FALSE
    /\ stopSeen' = stopSeen \cup {r \in Runs : Active(r)}
    /\ turns' = [r \in Runs |->
                    [k \in 1..Len(turns[r]) |->
                        IF k = Len(turns[r]) THEN MarkStop(r, turns[r][k])
                        ELSE turns[r][k]]]
    /\ UNCHANGED <<call, providers, pauseRequested, ctx, orchCfg, History, events, nRuns, run,
                   snap, gateAt, budget, nDeltas>>

\* case "update_config": reload the roster and autonomy_rounds of the session
UpdateConfig ==
    /\ nCmds < budget.cmds
    /\ nCmds' = nCmds + 1
    /\ \E configs \in Rosters, rounds \in 0..MaxAutonomy :
        /\ ModelConfigs' = configs
        /\ AutonomyRounds' = rounds
    /\ UNCHANGED <<call, providers, orchFlags, History, events, ctl, nRuns, run, turns, ghost,
                   budget, nDeltas>>

(* ------------------------ handleUserMessage --------------------------- *)
\* orch.Reset(); the user turn; round_start{0}; turn selection
Begin(r) ==
    /\ run[r].pc = "begin"
    /\ stopRequested' = FALSE
    /\ pauseRequested' = FALSE
    /\ ctx' = ctx + 1
    /\ History' = AddToHistory(History,
            [Role |-> "user", Content |-> run[r].msg.content, RoundNumber |-> 0,
             TokensUsed |-> 0, run |-> r, turn |-> 0])
    /\ Emit(r, Ev("round_start", r, 0, "", 0, <<>>, 0))
    /\ run' = [run EXCEPT
            ![r].models = GetRespondingModels(ModelConfigs, run[r].msg.mentions,
                                              ClassifyTask(run[r].msg.content)),
            ![r].prompt = StripMentions(run[r].msg.content),
            ![r].idx = 1, ![r].round = 0, ![r].pc = "loopChk"]
    /\ snap' = [snap EXCEPT ![r] =
                    [roster |-> ModelConfigs, rounds |-> AutonomyRounds]]
    /\ UNCHANGED <<call, providers, cancelled, orchCfg, client, turns, sessionPaused, stopSeen,
                   gateAt>>

\* for _, model := range models { if orch.IsStopped() { break }
LoopChk(r) ==
    /\ run[r].pc = "loopChk"
    /\ run' = [run EXCEPT ![r].pc =
            IF run[r].idx > Len(run[r].models) \/ stopRequested
            THEN "roundEnd" ELSE "genChk"]
    /\ UNCHANGED <<call, providers, orchFlags, orchCfg, History, events, client, turns, ghost>>

\* the poll loop waits for a resume only
GenChkWaitResume(r) ==
    /\ run[r].pc = "genChk"
    /\ ~pauseRequested
    /\ run' = IF stopRequested
              THEN [run EXCEPT ![r].idx = @ + 1, ![r].pc = "loopChk"]
              ELSE [run EXCEPT ![r].pc = "think"]
    /\ UNCHANGED <<call, providers, orchFlags, orchCfg, History, events, client, turns, ghost>>

\* for orch.IsPaused() && !orch.IsStopped() { time.Sleep(...) }, then
\* generateModelResponseWithReturn: if orch.IsStopped() { return "" }
GenChk(r) ==
    /\ run[r].pc = "genChk"
    /\ ~pauseRequested \/ stopRequested
    /\ run' = IF stopRequested
              THEN [run EXCEPT ![r].idx = @ + 1, ![r].pc = "loopChk"]
              ELSE [run EXCEPT ![r].pc = "think"]
    /\ UNCHANGED <<call, providers, orchFlags, orchCfg, History, events, client, turns, ghost>>

\* WriteJSON(thinking); BuildChatMessages; the ticker and its goroutine;
\* StreamChatToProvider(orch.Context(), ...)
Think(r) ==
    /\ run[r].pc = "think"
    /\ TurnsStarted < budget.turns
    /\ LET model == run[r].models[run[r].idx] IN
        /\ turns' = [turns EXCEPT ![r] =
                Append(@, [NewTurn(model, run[r].round, run[r].prompt) EXCEPT
                              !.tpc = "wait", !.live = TRUE, !.dispatches = 1])]
        /\ Emit(r, Ev("thinking", r, Cur(r) + 1, model.ShortID, run[r].round, <<>>, 0))
    /\ run' = [run EXCEPT ![r].callCtx = ctx, ![r].full = <<>>, ![r].nDelta = 0,
                          ![r].err = "none", ![r].pend = NoPend,
                          ![r].pc = "stream"]
    /\ UNCHANGED <<call, providers, orchFlags, orchCfg, History, client, ghost>>

(* ------------------- Provider.StreamChat read loop -------------------- *)
\* select { case <-ctx.Done(): return ctx.Err() }, then reader.ReadBytes:
\* a line that decodes to a delta, the end of the body, or a failure
\* (which includes a non-200 status and a model no provider serves)
StreamRead(r) ==
    /\ run[r].pc = "stream"
    /\ IF run[r].callCtx \in cancelled
       THEN /\ run' = [run EXCEPT ![r].err = "canceled", ![r].pc = "after"]
            /\ UNCHANGED nDeltas
       ELSE \/ /\ nDeltas < budget.deltas
               /\ \E d \in Deltas(run[r].nDelta + 1) :
                    run' = [run EXCEPT ![r].pend = d, ![r].nDelta = @ + 1,
                                       ![r].pc = "cbChk"]
               /\ nDeltas' = nDeltas + 1
            \/ /\ \E e \in {"nil", "error"} :
                    run' = [run EXCEPT ![r].err = e, ![r].pc = "after"]
               /\ UNCHANGED nDeltas
    /\ UNCHANGED <<call, providers, orchFlags, orchCfg, History, events, ctl, nRuns, nCmds, budget,
                   turns, ghost>>

(* --------------------------- onChunk ---------------------------------- *)
\* if orch.IsStopped() { return }; the provider then leaves its loop on a
\* final delta and reads on otherwise
CbChk(r) ==
    /\ run[r].pc = "cbChk"
    /\ run' = IF stopRequested
              THEN IF run[r].pend.done
                   THEN [run EXCEPT ![r].err = "nil", ![r].pc = "after"]
                   ELSE [run EXCEPT ![r].pc = "stream"]
              ELSE [run EXCEPT ![r].pc = "cbAppend"]
    /\ UNCHANGED <<call, providers, orchFlags, orchCfg, History, events, client, turns, ghost>>

\* for orch.IsPaused() && !orch.IsStopped() { time.Sleep(...) };
\* fullResponse += chunk; chunkBuffer += chunk; totalTokens = tokens;
\* if done { flushBuffer(true) }, after which the provider returns nil
CbAppend(r) ==
    /\ run[r].pc = "cbAppend"
    /\ ~pauseRequested \/ stopRequested
    /\ LET t == CurTurn(r)
           buf == t.buf \o run[r].pend.text IN
        IF run[r].pend.done
        THEN /\ run' = [run EXCEPT ![r].full = AppendChunk(@, run[r].pend.text),
                                   ![r].err = "nil", ![r].pc = "after"]
             /\ turns' = [turns EXCEPT ![r][Cur(r)] =
                            [@ EXCEPT !.buf = <<>>, !.tokens = run[r].nDelta]]
             /\ IF buf = <<>> THEN UNCHANGED events
                ELSE Emit(r, Ev("chunk", r, Cur(r), t.model.ShortID, t.round, buf,
                             run[r].nDelta))
        ELSE /\ run' = [run EXCEPT ![r].full = AppendChunk(@, run[r].pend.text),
                                   ![r].pc = "stream"]
             /\ turns' = [turns EXCEPT ![r][Cur(r)] =
                            [@ EXCEPT !.buf = buf, !.tokens = run[r].nDelta]]
             /\ UNCHANGED events
    /\ UNCHANGED <<call, providers, orchFlags, orchCfg, History, client, ghost>>

(* ------------------ after StreamChatToProvider returns ---------------- *)
\* a cancellation is not taken for an error
IsErrorTurnNotCanceled(err, full) == err = "error" /\ full = <<>>

\* if err != nil && fullResponse == ""
IsErrorTurn(err, full) == err # "nil" /\ full = <<>>

\* if wasStopped && fullResponse != "" { fullResponse += marker }
Committed(wasStopped, full) ==
    IF wasStopped /\ full # <<>> THEN full \o StoppedMarker ELSE full

\* the loop over the agents is left when a turn ends with an error
FinishBreakOnError(r) ==
    /\ run[r].pc = "after"
    /\ LET t == CurTurn(r)
           content == Committed(stopRequested, run[r].full) IN
        IF IsErrorTurn(run[r].err, run[r].full)
        THEN /\ Emit(r, Ev("error", r, Cur(r), t.model.ShortID, t.round, <<>>, 0))
             /\ UNCHANGED History
             /\ run' = [run EXCEPT ![r].idx = Len(run[r].models) + 1,
                                   ![r].pc = "loopChk"]
        ELSE /\ History' = AddToHistory(History,
                    [Role |-> t.model.ShortID, Content |-> content,
                     RoundNumber |-> t.round, TokensUsed |-> t.tokens,
                     run |-> r, turn |-> Cur(r)])
             /\ Emit(r, Ev("complete", r, Cur(r), t.model.ShortID, t.round,
                        content, t.tokens))
             /\ run' = [run EXCEPT ![r].idx = @ + 1, ![r].pc = "loopChk"]
    /\ turns' = [turns EXCEPT ![r][Cur(r)].live = FALSE]
    /\ UNCHANGED <<call, providers, orchFlags, orchCfg, client, ghost>>

\* wasStopped := orch.IsStopped(); the error event, or the history entry
\* and the complete event; the deferred ticker.Stop() on return
Finish(r) ==
    /\ run[r].pc = "after"
    /\ LET t == CurTurn(r)
           content == Committed(stopRequested, run[r].full) IN
        IF IsErrorTurn(run[r].err, run[r].full)
        THEN /\ Emit(r, Ev("error", r, Cur(r), t.model.ShortID, t.round, <<>>, 0))
             /\ UNCHANGED History
        ELSE /\ History' = AddToHistory(History,
                    [Role |-> t.model.ShortID, Content |-> content,
                     RoundNumber |-> t.round, TokensUsed |-> t.tokens,
                     run |-> r, turn |-> Cur(r)])
             /\ Emit(r, Ev("complete", r, Cur(r), t.model.ShortID, t.round,
                        content, t.tokens))
    /\ turns' = [turns EXCEPT ![r][Cur(r)].live = FALSE]
    /\ run' = [run EXCEPT ![r].idx = @ + 1, ![r].pc = "loopChk"]
    /\ UNCHANGED <<call, providers, orchFlags, orchCfg, client, ghost>>

(* ------------------------ rounds of a run ----------------------------- *)
\* if orch.AutonomyRounds > 0 && len(orch.ModelConfigs) >= 2 && !orch.IsStopped()
AutonomyGate(rounds, configs, stopped) ==
    rounds > 0 /\ Len(configs) >= 2 /\ ~stopped

\* round <= orch.AutonomyRounds && !orch.IsStopped()
RoundCond(round, rounds, stopped) == round <= rounds /\ ~stopped

\* WriteJSON(round_end); then either the next round begins: round_start and
\* the range over orch.ModelConfigs, or the rounds are over
RoundEnd(r) ==
    /\ run[r].pc = "roundEnd"
    /\ LET next == run[r].round + 1
           more == /\ run[r].round = 0 =>
                        AutonomyGate(AutonomyRounds, ModelConfigs, stopRequested)
                   /\ RoundCond(next, AutonomyRounds, stopRequested)
           e == Ev("round_end", r, 0, "", run[r].round, <<>>, 0) IN
        IF more
        THEN /\ events' = [events EXCEPT ![r] =
                            @ \o <<e, Ev("round_start", r, 0, "", next, <<>>, 0)>>]
             /\ run' = [run EXCEPT ![r].round = next, ![r].models = ModelConfigs,
                                   ![r].prompt = <<>>, ![r].idx = 1,
                                   ![r].pc = "loopChk"]
        ELSE /\ Emit(r, e)
             /\ run' = [run EXCEPT ![r].pc = "usage"]
    /\ gateAt' = IF run[r].round = 0
                 THEN [gateAt EXCEPT ![r] =
                        [seen |-> TRUE, rounds |-> AutonomyRounds,
                         roster |-> ModelConfigs, stopped |-> r \in stopSeen]]
                 ELSE gateAt
    /\ UNCHANGED <<call, providers, orchFlags, orchCfg, History, client, turns, sessionPaused,
                   stopSeen, snap>>

\* WriteJSON(token_usage)
Usage(r) ==
    /\ run[r].pc = "usage"
    /\ Emit(r, Ev("token_usage", r, 0, "", run[r].round, <<>>, 0))
    /\ run' = [run EXCEPT ![r].pc = "done"]
    /\ UNCHANGED <<call, providers, orchFlags, orchCfg, History, client, turns, ghost>>

(* ---------------- the flush goroutine of turn k of run r -------------- *)
\* for range ticker.C: a tick arrives while the ticker is not stopped;
\* if orch.IsStopped() { return }.  A tick that finds the run not stopped
\* and the buffer empty has no effect and is left out.
Tick(r, k) ==
    /\ turns[r][k].tpc = "wait"
    /\ turns[r][k].live
    /\ turns[r][k].buf # <<>> \/ stopRequested
    /\ turns' = [turns EXCEPT ![r][k].tpc =
                    IF stopRequested THEN "exit" ELSE "flush"]
    /\ UNCHANGED <<call, providers, orchFlags, orchCfg, History, events, client, run, ghost>>

\* the flush writes the buffer and does not empty it
TickFlushKeep(r, k) ==
    /\ turns[r][k].tpc = "flush"
    /\ LET t == turns[r][k] IN
        \/ /\ turns' = [turns EXCEPT ![r][k].tpc = "wait"]
           /\ UNCHANGED events
        \/ /\ t.buf # <<>>
           /\ Emit(r, Ev("chunk", r, k, t.model.ShortID, t.round, t.buf, t.tokens))
           /\ turns' = [turns EXCEPT ![r][k].tpc = "wait"]
    /\ UNCHANGED <<call, providers, orchFlags, orchCfg, History, client, run, ghost>>

\* flushBuffer(false): nothing when the buffer is empty or the last flush
\* is less than flushInterval ago
TickFlush(r, k) ==
    /\ turns[r][k].tpc = "flush"
    /\ LET t == turns[r][k] IN
        \/ /\ turns' = [turns EXCEPT ![r][k].tpc = "wait"]
           /\ UNCHANGED events
        \/ /\ t.buf # <<>>
           /\ Emit(r, Ev("chunk", r, k, t.model.ShortID, t.round, t.buf, t.tokens))
           /\ turns' = [turns EXCEPT ![r][k] =
                           [@ EXCEPT !.buf = <<>>, !.tpc = "wait"]]
    /\ UNCHANGED <<call, providers, orchFlags, orchCfg, History, client, run, ghost>>

(* ------------------------- specification ------------------------------ *)
RunStep(r) ==
    \/ Begin(r) \/ LoopChk(r) \/ GenChk(r) \/ Think(r) \/ StreamRead(r)
    \/ CbChk(r) \/ CbAppend(r) \/ Finish(r) \/ RoundEnd(r) \/ Usage(r)

TickerStep(r, k) == Tick(r, k) \/ TickFlush(r, k)

Next ==
    \/ UserMessage \/ Pause \/ Resume \/ Stop \/ UpdateConfig
    \/ \E r \in Runs : RunStep(r)
    \/ \E r \in Runs : \E k \in 1..Len(turns[r]) : TickerStep(r, k)

Spec == Init /\ [][Next]_vars

(* ---------------- the accesses to the Orchestrator -------------------- *)
\* an access to a field of the Orchestrator: a read or a write, made with
\* o.mu held or not
Rd(field, locked) == [field |-> field, kind |-> "read", locked |-> locked]
Wr(field, locked) == [field |-> field, kind |-> "write", locked |-> locked]

\* what the control loop accesses when it processes a command: Pause,
\* Resume and Stop lock o.mu, update_config assigns the fields directly
CommandAccesses(cmd) ==
    CASE cmd = "pause" -> {Wr("pauseRequested", TRUE)}
      [] cmd = "resume" -> {Wr("pauseRequested", TRUE)}
      [] cmd = "stop" -> {Wr("stopRequested", TRUE), Rd("ctx", TRUE)}
      [] cmd = "update_config" ->
            {Wr("ModelConfigs", FALSE), Wr("AutonomyRounds", FALSE)}
      [] OTHER -> {}

\* what the step of a run goroutine at pc accesses: Reset, AddToHistory,
\* IsStopped and IsPaused lock o.mu; Context, GetRespondingModels,
\* BuildSystemPrompt, BuildChatMessages, getLastUserMessage and the
\* expressions orch.ModelConfigs, orch.AutonomyRounds and orch.History of
\* handleUserMessage do not
StepAccesses(pc) ==
    CASE pc = "begin" ->
            {Wr("stopRequested", TRUE), Wr("pauseRequested", TRUE), Wr("ctx", TRUE),
             Wr("History", TRUE), Rd("ModelConfigs", FALSE)}
      [] pc = "loopChk" -> {Rd("stopRequested", TRUE)}
      [] pc = "genChk" -> {Rd("pauseRequested", TRUE), Rd("stopRequested", TRUE)}
      [] pc = "think" ->
            {Rd("History", FALSE), Rd("ModelConfigs", FALSE), Rd("ctx", FALSE)}
      [] pc = "cbChk" -> {Rd("stopRequested", TRUE)}
      [] pc = "cbAppend" -> {Rd("pauseRequested", TRUE), Rd("stopRequested", TRUE)}
      [] pc = "after" -> {Rd("stopRequested", TRUE), Wr("History", TRUE)}
      [] pc = "roundEnd" ->
            {Rd("AutonomyRounds", FALSE), Rd("ModelConfigs", FALSE),
             Rd("stopRequested", TRUE)}
      [] pc = "usage" -> {Rd("ModelConfigs", FALSE), Rd("History", FALSE)}
      [] OTHER -> {}

\* the commands the control loop can process next
Commands == {"pause", "resume", "stop", "update_config"}

\* the accesses that can be made at the same time as a step of run r: those
\* of the command the control loop processes and of the steps of the other
\* runs
Concurrent(r) ==
    (IF nCmds < budget.cmds THEN UNION {CommandAccesses(c) : c \in Commands} ELSE {})
    \cup UNION {StepAccesses(run[q].pc) : q \in Runs \ {r}}

(* ------------------- one run, scheduled until it ends ----------------- *)
\* One user_message under MaxCmds other commands: the turns are as many as
\* the rounds of one run over the largest roster can start, so that the run
\* never waits for a turn that the session explored does not have.
LiveBudget ==
    [runs |-> 1, cmds |-> MaxCmds, turns |-> (MaxAutonomy + 1) * Len(<<CfgA, CfgB>>),
     deltas |-> 1]

InitLive == Start /\ AutonomyRounds = MaxAutonomy /\ budget = LiveBudget

\* The goroutine of a run is scheduled whenever it can take a step: the Go
\* scheduler runs every runnable goroutine, a poll loop wakes up every
\* 100 ms, and a provider call returns when its stream ends or its context
\* is cancelled (the streams explored are finite).
\* The flush goroutines are left to Spec: they write chunk events and empty
\* chunkBuffer, which no test of the run reads.
NextLive ==
    \/ UserMessage \/ Pause \/ Resume \/ Stop \/ UpdateConfig
    \/ \E r \in Runs : RunStep(r)

SpecLive == InitLive /\ [][NextLive]_vars /\ \A r \in Runs : WF_vars(RunStep(r))

(* ---------------- the functions of package services, called ----------- *)
sessionVars == <<stopRequested, pauseRequested, ctx, cancelled, ModelConfigs,
                 AutonomyRounds, History, events, ctl, nRuns, nCmds, run, turns,
                 sessionPaused, stopSeen, snap, gateAt, budget, nDeltas>>

SeqsUpTo(S, n) == UNION {[1..k -> S] : k \in 0..n}

RECURSIVE Flatten(_)
Flatten(ss) == IF ss = <<>> THEN <<>> ELSE Head(ss) \o Flatten(Tail(ss))

\* the words of ws with one space between them
RECURSIVE Join(_)
Join(ws) ==
    IF ws = <<>> THEN <<>>
    ELSE IF Len(ws) = 1 THEN ws[1]
    ELSE ws[1] \o <<" ">> \o Join(Tail(ws))

CfgP == [ShortID |-> "p", Name |-> "Gamma", Role |-> RolePlanner]
CfgG == [ShortID |-> "g", Name |-> "Delta", Role |-> RoleGeneral]
CfgC == [ShortID |-> "c", Name |-> "Coda", Role |-> RoleCoder]

\* rosters given to GetRespondingModels
CallRosters == SeqsUpTo({CfgA, CfgB, CfgP, CfgG, CfgC}, MaxRoster)

\* mention lists given to GetRespondingModels
CallMentions == SeqsUpTo({"all", "ALL", "a", "Alpha", "BETA", "zed"}, MaxMentions)

\* utterances given to GetRespondingModels: of each class of ClassifyTask
CallContents ==
    { <<"h", "i">>, <<"p", "l", "a", "n">>, <<"c", "o", "d", "e">>,
      <<"r", "e", "v", "i", "e", "w">>, <<"p", "l", "a", "n", " ", "c", "o", "d", "e">> }

\* words of the utterances given to ClassifyTask
Words ==
    { <<"p", "l", "a", "n">>, <<"P", "l", "a", "n", "n", "i", "n", "g">>, <<"d", "e", "s", "i", "g", "n">>, <<"c", "o", "d", "e">>,
      <<"g", "o", "o", "d">>, <<"r", "e", "v", "i", "e", "w">>, <<"c", "h", "e", "c", "k">>, <<"h", "i">> }

Utterances == {Join(ws) : ws \in SeqsUpTo(Words, MaxWords)}

\* pieces of the texts given to StripMentions
Pieces ==
    { <<"@">>, <<"@", "[", "a", "]">>, <<"[", "b", "]">>, <<" ">>,
      <<"h", "i">>, <<"@", "a", "l", "l">>, <<"@", "b", "o", "b">> }

Texts == {Flatten(ps) : ps \in SeqsUpTo(Pieces, MaxPieces)}

CallGetRespondingModels ==
    /\ call = NoCall
    /\ \E configs \in CallRosters, mentioned \in CallMentions,
          content \in CallContents :
        call' = [fn |-> "GetRespondingModels",
                 arg |-> [configs |-> configs, mentioned |-> mentioned,
                          content |-> content],
                 out |-> GetRespondingModels(configs, mentioned,
                                             ClassifyTask(content))]
    /\ UNCHANGED <<sessionVars, providers>>

CallClassifyTask ==
    /\ call = NoCall
    /\ \E content \in Utterances :
        call' = [fn |-> "ClassifyTask", arg |-> content,
                 out |-> ClassifyTask(content)]
    /\ UNCHANGED <<sessionVars, providers>>

CallStripMentions ==
    /\ call = NoCall
    /\ \E content \in Texts :
        call' = [fn |-> "StripMentions", arg |-> content,
                 out |-> StripMentions(content)]
    /\ UNCHANGED <<sessionVars, providers>>

\* mention lists a client sends with an utterance
ExplicitMentions == SeqsUpTo({<<"B", "o", "b">>, <<"a">>}, MaxMentions)

CallExtractMentions ==
    /\ call = NoCall
    /\ \E content \in Texts, mentionedModels \in ExplicitMentions :
        call' = [fn |-> "ExtractMentionsFromUserMessage",
                 arg |-> [content |-> content,
                          mentionedModels |-> mentionedModels],
                 out |-> [contentMentions |-> ExtractMentionsFromUserMessage(content),
                          allMentions |-> AllMentions(mentionedModels, content)]]
    /\ UNCHANGED <<sessionVars, providers>>

(* ------------------------ BuildChatMessages --------------------------- *)
\* the fixed paragraphs of the system prompt, each one symbol of the text
RulesText == <<"Rules">>
MultiAgentText == <<"Multi-Agent Collaboration">>
CodeBlocksText == <<"Use markdown code blocks">>

BuildSystemPrompt(configs, forModel) ==
    <<"Y", "o", "u", "r", " ", "n", "a", "m", "e", " ", "i", "s", " ">> \o forModel.Name \o <<".">>
    \o (IF forModel.SystemPrompt # <<>> THEN <<" ">> \o forModel.SystemPrompt ELSE <<>>)
    \o RulesText
    \o (IF Len(configs) > 1 THEN MultiAgentText ELSE <<>>)
    \o CodeBlocksText

\* the Role of a user turn in History
UserRole == <<"u", "s", "e", "r">>

\* fmt.Sprintf("[%s (#%s)]: %s", name, id, text)
PeerCitation(name, id, text) ==
    <<"[">> \o name \o <<" ", "(", "#">> \o id \o <<")", "]", ":", " ">> \o text

\* the body of the loop over History: the messages made from one turn; the
\* pointers ModelID and ModelName are sequences of no or one string
ChatMessagesOf(msg, forModel) ==
    LET cleanContent == StripMentions(msg.Content) IN
    IF msg.Role = UserRole
    THEN <<[Role |-> "user", Content |-> cleanContent]>>
    ELSE IF msg.ModelID # <<>> /\ msg.ModelID[1] = forModel.ShortID
    THEN <<[Role |-> "assistant", Content |-> cleanContent]>>
    ELSE IF msg.ModelName # <<>>
    THEN <<[Role |-> "user",
            Content |-> PeerCitation(msg.ModelName[1], msg.ModelID[1], cleanContent)]>>
    ELSE <<>>

RECURSIVE HistoryMessages(_, _)
HistoryMessages(history, forModel) ==
    IF history = <<>> THEN <<>>
    ELSE ChatMessagesOf(Head(history), forModel)
         \o HistoryMessages(Tail(history), forModel)

getLastUserMessageRaw(history) ==
    IF \E i \in 1..Len(history) : history[i].Role = UserRole
    THEN LET i == CHOOSE k \in 1..Len(history) :
                      /\ history[k].Role = UserRole
                      /\ \A j \in (k + 1)..Len(history) : history[j].Role # UserRole
         IN history[i].Content
    ELSE <<>>

getLastUserMessage(history) ==
    IF \E i \in 1..Len(history) : history[i].Role = UserRole
    THEN LET i == CHOOSE k \in 1..Len(history) :
                      /\ history[k].Role = UserRole
                      /\ \A j \in (k + 1)..Len(history) : history[j].Role # UserRole
         IN StripMentions(history[i].Content)
    ELSE <<>>

BuildChatMessages(configs, history, forModel, currentPrompt) ==
    <<[Role |-> "system", Content |-> BuildSystemPrompt(configs, forModel)]>>
    \o HistoryMessages(history, forModel)
    \o (IF currentPrompt # <<>> /\ currentPrompt # getLastUserMessage(history)
        THEN <<[Role |-> "user", Content |-> currentPrompt]>>
        ELSE <<>>)

\* agents as the client names them: generateShortId gives a1, b1, ...
AgentA1 == [ShortID |-> <<"a", "1">>, Name |-> <<"A", "l">>, SystemPrompt |-> <<>>]
AgentB1 == [ShortID |-> <<"b", "1">>, Name |-> <<"B", "o">>,
            SystemPrompt |-> <<"B", "e", " ", "b", "r", "i", "e", "f", ".">>]

\* the turn handleUserMessage adds to History
UserTurn(content) ==
    [Role |-> UserRole, ModelID |-> <<>>, ModelName |-> <<>>, Content |-> content]

\* the turn generateModelResponseWithReturn adds to History
AgentTurn(model, fullResponse) ==
    [Role |-> model.ShortID, ModelID |-> <<model.ShortID>>,
     ModelName |-> <<model.Name>>, Content |-> fullResponse]

ChatUtterances == { <<"h", "i">>, <<"@", "[", "B", "o", "]", " ", "h", "i">>, <<"@", "a", "l", "l">> }

ChatTurns ==
    {UserTurn(c) : c \in ChatUtterances}
    \cup {AgentTurn(AgentA1, <<"o", "k">>), AgentTurn(AgentB1, <<"o", "k">>), AgentTurn(AgentB1, <<"@", "[", "A", "l", "]", " ", "o", "k">>)}

ChatHistories == SeqsUpTo(ChatTurns, MaxHistory)

\* the prompts of processModelResponses: the utterance stripped, or none
ChatPrompts == {<<>>} \cup {StripMentions(c) : c \in ChatUtterances}

ChatRosters == { <<AgentA1>>, <<AgentA1, AgentB1>> }

CallBuildChatMessages ==
    /\ call = NoCall
    /\ \E configs \in ChatRosters, history \in ChatHistories,
          currentPrompt \in ChatPrompts :
        \E i \in 1..Len(configs) :
            call' = [fn |-> "BuildChatMessages",
                     arg |-> [configs |-> configs, history |-> history,
                              forModel |-> configs[i],
                              currentPrompt |-> currentPrompt],
                     out |-> BuildChatMessages(configs, history, configs[i],
                                               currentPrompt)]
    /\ UNCHANGED <<sessionVars, providers>>

(* ------------------------- the providers ------------------------------ *)
\* a model id is a sequence of words and colons: "openai:gpt-4o" is
\* <<"openai", ":", "gpt-4o">>
HasPrefix(s, prefix) ==
    Len(prefix) <= Len(s) /\ SubSeq(s, 1, Len(prefix)) = prefix

AnthropicModels ==
    << "claude-sonnet-4-20250514", "claude-opus-4-20250514",
       "claude-3-5-sonnet-20241022", "claude-3-5-haiku-20241022",
       "claude-3-opus-20240229" >>

GeminiModels ==
    << "gemini-2.5-flash", "gemini-2.5-pro", "gemini-2.0-flash",
       "gemini-2.0-flash-lite" >>

\* OpenAIProviderConfigs: the Models of each name
OpenAIProviderConfigs ==
    [ openai |-> << "gpt-4o", "gpt-4o-mini", "gpt-4-turbo", "gpt-4", "gpt-3.5-turbo" >>,
      deepseek |-> << "deepseek-chat", "deepseek-coder" >>,
      groq |-> << "llama-3.3-70b-versatile", "llama-3.1-8b-instant",
                  "mixtral-8x7b-32768", "gemma2-9b-it" >>,
      together |-> << "meta-llama/Llama-3.3-70B-Instruct-Turbo",
                      "meta-llama/Llama-3.2-3B-Instruct-Turbo",
                      "mistralai/Mixtral-8x7B-Instruct-v0.1" >>,
      openrouter |-> << "openai/gpt-4o", "anthropic/claude-3.5-sonnet",
                        "google/gemini-pro-1.5", "meta-llama/llama-3.3-70b-instruct" >> ]

cloudPrefixes ==
    << "anthropic", "gemini", "openai", "deepseek", "groq", "together", "openrouter" >>

\* the provider clients, by Name()
ProviderNames == {"ollama", "anthropic", "gemini"} \cup DOMAIN OpenAIProviderConfigs

\* AnthropicModels, GeminiModels, or p.models of an OpenAIProvider
CatalogOf(name) ==
    CASE name = "anthropic" -> AnthropicModels
      [] name = "gemini" -> GeminiModels
      [] name \in DOMAIN OpenAIProviderConfigs -> OpenAIProviderConfigs[name]
      [] OTHER -> <<>>

SupportsModel(name, modelID) ==
    IF name = "ollama"
    THEN \/ HasPrefix(modelID, <<"ollama", ":">>)
         \/ ~\E i \in 1..Len(cloudPrefixes) :
                HasPrefix(modelID, <<cloudPrefixes[i], ":">>)
    ELSE \/ HasPrefix(modelID, <<name, ":">>)
         \/ \E i \in 1..Len(CatalogOf(name)) : <<CatalogOf(name)[i]>> = modelID

\* the ids of ListModels; tags are the names the Ollama server lists
ListModels(name, tags) ==
    IF name = "ollama" THEN tags
    ELSE [i \in 1..Len(CatalogOf(name)) |-> <<name, ":", CatalogOf(name)[i]>>]

\* a call of onChunk
Delta(text, final) == [text |-> text, final |-> final]

\* the read loop of StreamChat from line i of the body on: the calls of
\* onChunk.  A line is "text" (a chunk with text), "final" (a chunk that ends
\* the stream), "done" (data: [DONE]), "object" (a JSON object that is no
\* chunk) or "bad" (not JSON); the text of line i is <<i>>
\* the loop reads on after a chunk that ends the stream
RECURSIVE StreamLoopReadOn(_, _, _)
StreamLoopReadOn(name, body, i) ==
    IF i > Len(body)
    THEN IF name = "gemini" THEN <<Delta(<<>>, TRUE)>> ELSE <<>>
    ELSE LET rest == StreamLoopReadOn(name, body, i + 1) IN
         CASE body[i] = "text" -> <<Delta(<<i>>, FALSE)>> \o rest
           [] body[i] = "final" -> <<Delta(<<>>, TRUE)>> \o rest
           [] body[i] = "done" ->
                IF name \in {"ollama", "gemini"} THEN rest
                ELSE <<Delta(<<>>, TRUE)>> \o rest
           [] body[i] = "object" ->
                IF name = "ollama" THEN <<Delta(<<>>, FALSE)>> \o rest ELSE rest
           [] OTHER -> rest

RECURSIVE StreamLoop(_, _, _)
StreamLoop(name, body, i) ==
    IF i > Len(body)
    THEN IF name = "gemini" THEN <<Delta(<<>>, TRUE)>> ELSE <<>>
    ELSE LET rest == StreamLoop(name, body, i + 1) IN
         CASE body[i] = "text" -> <<Delta(<<i>>, FALSE)>> \o rest
           [] body[i] = "final" -> <<Delta(<<>>, TRUE)>>
           [] body[i] = "done" ->
                IF name \in {"ollama", "gemini"} THEN rest
                ELSE <<Delta(<<>>, TRUE)>>
           [] body[i] = "object" ->
                IF name = "ollama" THEN <<Delta(<<>>, FALSE)>> \o rest ELSE rest
           [] OTHER -> rest

StatusOK == 200

\* StreamChat of the client called name, once the response has arrived
StreamChat(name, response) ==
    IF name # "ollama" /\ response.status # StatusOK
    THEN [provider |-> name, err |-> "api error", errText |-> <<"API error">>,
          deltas |-> <<>>]
    ELSE [provider |-> name, err |-> "nil", errText |-> <<>>,
          deltas |-> StreamLoop(name, response.body, 1)]

\* Register: r.providers[p.Name()] = p; RegisterOpenAIProvider returns when
\* the name has no configuration
Register(registered, name) ==
    IF name \in ProviderNames \ {"ollama"} THEN registered \cup {name}
    ELSE registered

Unregister(registered, name) == registered \ {name}

\* GetForModel: what the range over the map can return, "nil" for nil
GetForModel(registered, modelID) ==
    LET accepting == {p \in registered : SupportsModel(p, modelID)} IN
    IF accepting = {} THEN {"nil"} ELSE accepting

\* a model id nobody accepts is given to the local provider
StreamChatToProviderLocal(provider, modelID, response) ==
    StreamChat(IF provider = "nil" THEN "ollama" ELSE provider, response)

StreamChatToProvider(provider, modelID, response) ==
    IF provider = "nil"
    THEN [provider |-> "nil", err |-> "no provider",
          errText |-> <<"no provider found for model: ">> \o modelID,
          deltas |-> <<>>]
    ELSE StreamChat(provider, response)

\* the text the stream accumulated: fullResponse
RECURSIVE FullResponse(_)
FullResponse(deltas) ==
    IF deltas = <<>> THEN <<>>
    ELSE Head(deltas).text \o FullResponse(Tail(deltas))

\* model ids a roster can hold
ModelIDs ==
    { <<"llama3", ":", "latest">>, <<"ollama", ":", "llama3">>, <<"gpt-4o">>,
      <<"openai", ":", "gpt-4o">>, <<"openai", ":", "o9">>,
      <<"claude-3-opus-20240229">>, <<"anthropic", ":", "claude-3-opus-20240229">>,
      <<"gemini", ":", "gemini-2.5-pro">>, <<"openai/gpt-4o">>,
      <<"mistral", ":", "large">> }

\* the names of the requests that save, delete or toggle a provider key
RequestNames == ProviderNames \cup {"mistral"}

Statuses == {StatusOK, 404, 500}
LineKinds == {"text", "final", "done", "object", "bad"}
Responses == [status : Statuses, body : SeqsUpTo(LineKinds, MaxLines)]

\* the responses of the dispatches through the registry
DispatchResponses ==
    { [status |-> StatusOK, body |-> <<"text", "final">>],
      [status |-> 500, body |-> <<>>] }

\* the names the local Ollama server lists
OllamaTags ==
    SeqsUpTo({<<"llama3", ":", "latest">>, <<"qwen">>, <<"groq", ":", "latest">>},
             MaxTags)

RegisterProvider ==
    /\ call = NoCall
    /\ \E name \in RequestNames : providers' = Register(providers, name)
    /\ UNCHANGED <<call, sessionVars>>

UnregisterProvider ==
    /\ call = NoCall
    /\ \E name \in RequestNames : providers' = Unregister(providers, name)
    /\ UNCHANGED <<call, sessionVars>>

CallStreamChatToProvider ==
    /\ call = NoCall
    /\ \E modelID \in ModelIDs, response \in DispatchResponses :
        \E provider \in GetForModel(providers, modelID) :
            call' = [fn |-> "StreamChatToProvider",
                     arg |-> [modelID |-> modelID, response |-> response],
                     out |-> StreamChatToProvider(provider, modelID, response)]
    /\ UNCHANGED <<sessionVars, providers>>

CallListModels ==
    /\ call = NoCall
    /\ \E name \in ProviderNames, tags \in OllamaTags :
        call' = [fn |-> "ListModels", arg |-> [name |-> name, tags |-> tags],
                 out |-> ListModels(name, tags)]
    /\ UNCHANGED <<sessionVars, providers>>

CallSupportsModel ==
    /\ call = NoCall
    /\ \E name \in ProviderNames, modelID \in ModelIDs :
        call' = [fn |-> "SupportsModel",
                 arg |-> [name |-> name, modelID |-> modelID],
                 out |-> SupportsModel(name, modelID)]
    /\ UNCHANGED <<sessionVars, providers>>

CallStreamChat ==
    /\ call = NoCall
    /\ \E name \in ProviderNames, response \in Responses :
        call' = [fn |-> "StreamChat", arg |-> [name |-> name, response |-> response],
                 out |-> StreamChat(name, response)]
    /\ UNCHANGED <<sessionVars, providers>>

(* --------------------------- flushBuffer ------------------------------ *)
\* a rate is the fraction num / den, den > 0; time is counted in ticks of the
\* monotonic clock
Rate(num, den) == [num |-> num, den |-> den]

\* time.Since(startTime)
Since(startTime, now) == now - startTime

\* the quotient is computed whatever the token count is
TokensPerSecondAnyCount(totalTokens, elapsed) ==
    IF elapsed > 0 THEN Rate(totalTokens, elapsed) ELSE Rate(0, 1)

\* if elapsed > 0 && totalTokens > 0 { tokensPerSecond = totalTokens / elapsed }
TokensPerSecond(totalTokens, elapsed) ==
    IF elapsed > 0 /\ totalTokens > 0 THEN Rate(totalTokens, elapsed)
    ELSE Rate(0, 1)

\* a flush at time now of a turn dispatched at startTime, of which the
\* session was paused for paused ticks; totalTokens is what the provider
\* reported last
CallFlushBuffer ==
    /\ call = NoCall
    /\ \E totalTokens \in -1..MaxTokens, startTime \in 0..MaxTime :
        \E now \in startTime..MaxTime :
            \E paused \in 0..(now - startTime) :
                call' = [fn |-> "flushBuffer",
                         arg |-> [totalTokens |-> totalTokens,
                                  startTime |-> startTime, now |-> now,
                                  paused |-> paused],
                         out |-> TokensPerSecond(totalTokens,
                                                 Since(startTime, now))]
    /\ UNCHANGED <<sessionVars, providers>>

(* ---------------- the roster of the client: its repair ----------------- *)
\* String.fromCharCode(97 + k), k = 0..25
Letters ==
    << "a", "b", "c", "d", "e", "f", "g", "h", "i", "j", "k", "l", "m",
       "n", "o", "p", "q", "r", "s", "t", "u", "v", "w", "x", "y", "z" >>

\* the decimal numerals of 1..4
Numerals == << "1", "2", "3", "4" >>

\* for (let i = 0; i < 100; i++)
Candidates == 100

\* `${letter}${number}` of the loop index i: a short id is the pair of its
\* first character and the rest
Candidate(i) == <<Letters[(i % 26) + 1], Numerals[(i \div 26) + 1]>>

\* the first candidate, whatever ids exist
generateShortIdFirst(existingConfigs, now) == Candidate(0)

\* generateShortId; now is Date.now().toString(36).slice(-4)
generateShortId(existingConfigs, now) ==
    LET existingIds == {existingConfigs[k].short_id : k \in 1..Len(existingConfigs)}
        free == {i \in 0..(Candidates - 1) : Candidate(i) \notin existingIds}
    IN IF free # {}
       THEN Candidate(CHOOSE i \in free : \A j \in free : i <= j)
       ELSE <<"x", now>>

\* the loop of fixDuplicateShortIds over configs, fixedConfigs built so far
RECURSIVE FixLoop(_, _, _)
FixLoop(configs, fixedConfigs, now) ==
    IF configs = <<>> THEN fixedConfigs
    ELSE LET config == Head(configs)
             seenIds == {fixedConfigs[k].short_id : k \in 1..Len(fixedConfigs)}
         IN IF config.short_id \in seenIds
            THEN FixLoop(Tail(configs),
                         Append(fixedConfigs,
                                [config EXCEPT !.short_id =
                                    generateShortId(fixedConfigs, now)]),
                         now)
            ELSE FixLoop(Tail(configs), Append(fixedConfigs, config), now)

fixDuplicateShortIds(configs, now) == FixLoop(configs, <<>>, now)

\* entries of a saved roster
SavedEntries ==
    { [short_id |-> <<"a", "1">>, name |-> "Llama 1", role |-> RoleGeneral],
      [short_id |-> <<"a", "1">>, name |-> "Qwen 2", role |-> RoleCoder],
      [short_id |-> <<"b", "1">>, name |-> "Qwen 2", role |-> RoleCoder],
      [short_id |-> <<"c", "1">>, name |-> "Phi 3", role |-> RoleGeneral] }

\* the rosters loadSavedModelConfigs reads
SavedRosters == SeqsUpTo(SavedEntries, MaxSaved)

CallFixDuplicateShortIds ==
    /\ call = NoCall
    /\ \E configs \in SavedRosters, now \in {"k3f9"} :
        call' = [fn |-> "fixDuplicateShortIds", arg |-> configs,
                 out |-> fixDuplicateShortIds(configs, now)]
    /\ UNCHANGED <<sessionVars, providers>>

\* the call returns
Return ==
    /\ call # NoCall
    /\ call' = NoCall
    /\ UNCHANGED <<sessionVars, providers>>

InitCalls ==
    /\ Init
    /\ AutonomyRounds = 0
    /\ budget.runs = MaxRuns

NextCalls ==
    \/ CallGetRespondingModels \/ CallClassifyTask \/ CallStripMentions
    \/ CallExtractMentions \/ CallBuildChatMessages
    \/ CallListModels \/ CallSupportsModel \/ CallStreamChat
    \/ CallFlushBuffer \/ CallFixDuplicateShortIds
    \/ Return

SpecCalls == InitCalls /\ [][NextCalls]_vars

\* the provider registry: registrations, and dispatches through it
NextProviders ==
    \/ RegisterProvider \/ UnregisterProvider \/ CallStreamChatToProvider
    \/ Return

SpecProviders == InitCalls /\ [][NextProviders]_vars

(* ======================== the claims ================================== *)
IsPrefix(s, t) == Len(s) <= Len(t) /\ SubSeq(t, 1, Len(s)) = s

\* the events of turn k in the sequence ev of one run
TurnEvents(ev, k) == SelectSeq(ev, LAMBDA e : e.turn = k)
ChunkCount(ev, k) == Len(SelectSeq(ev, LAMBDA e : e.turn = k /\ e.type = "chunk"))
Terminal(e) == e.type \in {"complete", "error"}

\* the history entries of turn k of run r
HistoryOf(r, k) == SelectSeq(History, LAMBDA h : h.run = r /\ h.turn = k)

\* turn k of run r is between its thinking event and its terminal event
TurnOpen(r, k) == k = Cur(r) /\ run[r].pc \in Streaming \cup {"after"}
TurnOver(r, k) == k \in 1..Cur(r) /\ ~TurnOpen(r, k)

AllTurns == {rk \in Runs \X (1..MaxTurns) : rk[2] <= Cur(rk[1])}

(* C1: once a stop has been processed during a run, that run starts no     *)
(* further agent turn: it does not get past the stop test that precedes    *)
(* the thinking event and the provider dispatch of a turn (a run that had  *)
(* passed that test when the stop was processed is not counted).           *)
C1_NoTurnAfterStop ==
    [][\A r \in Runs :
        (r \in stopSeen /\ run[r].pc # "think") => run'[r].pc # "think"]_vars

(* C2: a stop processed while a stream has accumulated non-empty partial   *)
(* text: the turn is committed exactly once as the partial text followed   *)
(* by the marker, and no chunk of the turn is emitted after the stop.      *)
C2_StopCommitsPartial ==
    /\ [](\A rk \in AllTurns :
            LET t == turns[rk[1]][rk[2]]
                h == HistoryOf(rk[1], rk[2]) IN
            (t.stopMid /\ t.stopText # <<>> /\ TurnOver(rk[1], rk[2])) =>
                (Len(h) = 1 /\ h[1].Content = t.stopText \o StoppedMarker))
    /\ [][\A rk \in AllTurns :
            LET t == turns[rk[1]][rk[2]] IN
            (t.stopMid /\ t.stopText # <<>>) =>
                ChunkCount(events'[rk[1]], rk[2]) = ChunkCount(events[rk[1]], rk[2])]_vars

(* C3: autonomyRounds > 0, at least two agents: when the autonomous rounds *)
(* of a run finish without a stop, a checkpoint event with the last round  *)
(* number has been emitted and the session is paused.                      *)
C3_CheckpointPause ==
    \A r \in Runs :
        (/\ run[r].pc = "usage" /\ run[r].round >= 1
         /\ r \notin stopSeen
         /\ snap[r].rounds > 0 /\ Len(snap[r].roster) >= 2)
        => /\ \E i \in 1..Len(events[r]) :
                /\ events[r][i].type = "checkpoint"
                /\ events[r][i].round = run[r].round
           /\ pauseRequested

(* C4: at most one provider StreamChat call is in flight per session.      *)
C4_OneInFlight == Cardinality({r \in Runs : run[r].pc \in Streaming}) <= 1

(* C5: the events of a turn are thinking, chunks, one terminal event, with *)
(* nothing of the turn after the terminal event and no event of another    *)
(* agent of the same round in between.                                     *)
PerTurnOrder(r, k) ==
    LET E == TurnEvents(events[r], k) IN
    /\ Len(E) >= 1 /\ E[1].type = "thinking"
    /\ \A i \in 2..Len(E) : E[i].type \in {"chunk", "complete", "error"}
    /\ \A i \in 1..(Len(E) - 1) : ~Terminal(E[i])
    /\ TurnOver(r, k) => Terminal(E[Len(E)])

NoForeignInside(r) ==
    \A i, j, l \in 1..Len(events[r]) :
        (/\ i < j /\ j < l
         /\ events[r][i].type = "thinking" /\ Terminal(events[r][l])
         /\ events[r][i].turn = events[r][l].turn)
        => ~(/\ events[r][j].turn \notin {0, events[r][i].turn}
             /\ events[r][j].round = events[r][i].round
             /\ events[r][j].model # events[r][i].model)

NoForeignAcross ==
    \A r, q \in Runs :
        (/\ r # q
         /\ Len(events'[r]) > Len(events[r])
         /\ q \in DOMAIN run /\ TurnOpen(q, Cur(q)))
        => LET e == events'[r][Len(events'[r])] IN
           ~(e.turn # 0 /\ e.round = CurTurn(q).round
             /\ e.model # CurTurn(q).model.ShortID)

C5_TurnEventOrder ==
    /\ [](\A rk \in AllTurns : PerTurnOrder(rk[1], rk[2]))
    /\ [](\A r \in Runs : NoForeignInside(r))
    /\ [][NoForeignAcross]_vars

(* C6: while the session is paused (a pause was processed, no resume or    *)
(* stop since, the pause flag is set and the stop flag is not), no chunk   *)
(* event is delivered for the agent turn in flight.                        *)
C6_NoChunkWhilePaused ==
    [][(sessionPaused /\ pauseRequested /\ ~stopRequested) =>
        \A r \in Runs :
            run[r].pc \in Streaming =>
                ChunkCount(events'[r], Cur(r)) = ChunkCount(events[r], Cur(r))]_vars

(* C7: every turn makes exactly one dispatch, whatever pauses and resumes  *)
(* arrive, and the text accumulated when a pause was processed is a prefix *)
(* of the text accumulated afterwards and of what is committed.            *)
C7_OneDispatchPrefix ==
    \A rk \in AllTurns :
        LET r == rk[1]
            t == turns[r][rk[2]]
            h == HistoryOf(r, rk[2]) IN
        /\ t.dispatches = 1
        /\ (t.pauseMid /\ TurnOpen(r, rk[2])) => IsPrefix(t.pauseText, run[r].full)
        /\ t.pauseMid => \A i \in 1..Len(h) : IsPrefix(t.pauseText, h[i].Content)

\* a turn paused with text, resumed, and grown since
C7_Witness ==
    \E r \in Runs :
        /\ Cur(r) >= 1 /\ TurnOpen(r, Cur(r))
        /\ CurTurn(r).pauseMid /\ CurTurn(r).pauseText # <<>>
        /\ ctl[Len(ctl)] = "resumed"
        /\ Len(run[r].full) > Len(CurTurn(r).pauseText)

(* C8: a run performs the autonomous rounds and asks the agents of the     *)
(* autonomyRounds and roster captured when it began, whatever              *)
(* update_config is processed while it is in flight.                       *)
C8_PolicySnapshot ==
    \A r \in Runs : \A i \in 1..Len(events[r]) :
        LET e == events[r][i] IN
        /\ e.type = "round_start" =>
                /\ e.round <= snap[r].rounds
                /\ e.round >= 1 => Len(snap[r].roster) >= 2
        /\ e.type = "thinking" =>
                \E j \in 1..Len(snap[r].roster) : snap[r].roster[j].ShortID = e.model

(* C9: autonomous rounds run only if autonomyRounds > 0, the roster has    *)
(* two agents or more and the run is not stopped when round 0 ends; there  *)
(* are at most autonomyRounds of them; in each, every roster member is     *)
(* asked once, in roster order, with an empty prompt.                      *)
RoundTurns(r, n) == SelectSeq(turns[r], LAMBDA t : t.round = n)

C9_AutonomousRounds ==
    \A r \in Runs : \A i \in 1..Len(events[r]) :
        LET e == events[r][i]
            g == gateAt[r]
            T == RoundTurns(r, e.round) IN
        /\ (e.type = "round_start" /\ e.round >= 1) =>
                /\ g.seen /\ g.rounds > 0 /\ Len(g.roster) >= 2 /\ ~g.stopped
                /\ e.round <= g.rounds
        /\ (e.type = "round_end" /\ e.round >= 1 /\ r \notin stopSeen) =>
                /\ Len(T) = Len(g.roster)
                /\ \A j \in 1..Len(T) :
                        T[j].model = g.roster[j] /\ T[j].prompt = <<>>

(* C10: a dispatch that ends with an error and no accumulated text writes  *)
(* no history entry and emits an error event, not a complete event.        *)
C10_ErrorTurn ==
    /\ [][\A r \in Runs :
            (/\ run[r].pc = "after" /\ run'[r].pc # "after"
             /\ run[r].err # "nil" /\ run[r].full = <<>>)
            => /\ History' = History
               /\ Len(events'[r]) = Len(events[r]) + 1
               /\ events'[r][Len(events'[r])].type = "error"
               /\ events'[r][Len(events'[r])].turn = Cur(r)]_vars
    /\ [](\A rk \in AllTurns :
            (\E i \in 1..Len(events[rk[1]]) :
                /\ events[rk[1]][i].turn = rk[2]
                /\ events[rk[1]][i].type = "error")
            => /\ HistoryOf(rk[1], rk[2]) = <<>>
               /\ \A i \in 1..Len(events[rk[1]]) :
                    events[rk[1]][i].turn = rk[2] => events[rk[1]][i].type # "complete")

\* a turn ended with an error event and left no history entry
C10_Witness ==
    \E rk \in AllTurns :
        /\ TurnOver(rk[1], rk[2])
        /\ HistoryOf(rk[1], rk[2]) = <<>>
        /\ \E i \in 1..Len(events[rk[1]]) :
            events[rk[1]][i].turn = rk[2] /\ events[rk[1]][i].type = "error"

\* the contents of the chunk events of turn k in ev, concatenated in order
RECURSIVE Concat(_)
Concat(ss) == IF ss = <<>> THEN <<>> ELSE Head(ss).content \o Concat(Tail(ss))

ChunkText(ev, k) ==
    Concat(SelectSeq(ev, LAMBDA e : e.turn = k /\ e.type = "chunk"))

LastEvent(ev) == ev[Len(ev)]

\* the agents of round n of run r, as the run selected them when the round began
RoundAgents(r, n) ==
    IF n = 0
    THEN GetRespondingModels(snap[r].roster, run[r].msg.mentions,
                             ClassifyTask(run[r].msg.content))
    ELSE gateAt[r].roster

\* turn k of run r ended with an error event
ErrorTurn(r, k) ==
    \E i \in 1..Len(events[r]) :
        events[r][i].turn = k /\ events[r][i].type = "error"

(* C11: an error on one agent's turn ends that turn only: in a run that    *)
(* no stop reached, every round that has ended asked every agent selected  *)
(* for it, in order, whichever turns ended with an error, and the first    *)
(* autonomous round happened whenever the autonomy condition held.         *)
C11_ErrorEndsTurnOnly ==
    \A r \in Runs :
        (r \notin stopSeen /\ run[r].pc \in {"roundEnd", "usage", "done"}) =>
            /\ \A n \in 0..run[r].round :
                n <= 1 =>
                    LET T == RoundTurns(r, n) IN
                    /\ Len(T) = Len(RoundAgents(r, n))
                    /\ \A j \in 1..Len(T) : T[j].model = RoundAgents(r, n)[j]
            /\ (/\ run[r].pc \in {"usage", "done"}
                /\ gateAt[r].rounds > 0 /\ Len(gateAt[r].roster) >= 2)
               => run[r].round >= 1

\* a run no stop reached: its turn in round 0 ended with an error, and so did
\* the first turn of round 1, and the second agent of round 1 was asked
C11_Witness ==
    \E r \in Runs :
        /\ r \notin stopSeen
        /\ Len(turns[r]) = 3
        /\ turns[r][1].round = 0 /\ ErrorTurn(r, 1)
        /\ turns[r][2].round = 1 /\ ErrorTurn(r, 2)
        /\ turns[r][3].round = 1

(* C12: a stop never produces an error event: a turn that was in flight   *)
(* when the stop was processed and whose dispatch ends with the            *)
(* cancellation of its context ends without an error event.                *)
C12_StopNoErrorEvent ==
    [][\A r \in Runs :
        (/\ run[r].pc = "after" /\ run'[r].pc # "after"
         /\ CurTurn(r).stopMid /\ run[r].err = "canceled")
        => LastEvent(events'[r]).type # "error"]_vars

(* C13: a stream that ends without a final delta (the connection closed):  *)
(* when the terminal event of the turn is sent, the chunk events of the    *)
(* turn have delivered all the text accumulated for it.                    *)
C13_FlushedBeforeTerminal ==
    [][\A r \in Runs :
        (/\ run[r].pc = "after" /\ run'[r].pc # "after"
         /\ ~run[r].pend.done /\ run[r].err # "canceled"
         /\ r \notin stopSeen)
        => ChunkText(events[r], Cur(r)) = run[r].full]_vars

(* C14: a turn whose stream delivered its final delta, in a run no stop    *)
(* reached: the contents of the turn's chunk events, concatenated in       *)
(* order, are the content of its complete event.                           *)
C14_ChunksMakeComplete ==
    \A r \in Runs :
        (/\ Cur(r) >= 1 /\ TurnOver(r, Cur(r))
         /\ run[r].pend.done /\ r \notin stopSeen)
        => \A i \in 1..Len(events[r]) :
              (events[r][i].turn = Cur(r) /\ events[r][i].type = "complete")
              => ChunkText(events[r], Cur(r)) = events[r][i].content

\* a completed turn of two deltas, the first flushed by the ticker, the second
\* by the forced flush of the final delta
C14_Witness ==
    \E r \in Runs :
        /\ Cur(r) >= 1 /\ TurnOver(r, Cur(r))
        /\ run[r].pend.done /\ r \notin stopSeen
        /\ ChunkCount(events[r], Cur(r)) = 2
        /\ \E i \in 1..Len(events[r]) :
              /\ events[r][i].turn = Cur(r) /\ events[r][i].type = "complete"
              /\ Len(events[r][i].content) = 2

(* --------------- the functions of package services -------------------- *)
IsCall(fn) == call.fn = fn

MentionsAll(mentioned) == \E i \in 1..Len(mentioned) : Lower(mentioned[i]) = "all"

\* the places of the roster whose short id or name is a mention, ignoring case
MatchIdx(configs, mentioned) ==
    {i \in 1..Len(configs) :
        \E j \in 1..Len(mentioned) :
            \/ Lower(configs[i].ShortID) = Lower(mentioned[j])
            \/ Lower(configs[i].Name) = Lower(mentioned[j])}

\* the j-th smallest element of a set of numbers
Nth(S, j) == CHOOSE x \in S : Cardinality({y \in S : y < x}) = j - 1

RoleIdx(configs, role) == {i \in 1..Len(configs) : configs[i].Role = role}

(* C15: non-empty roster, a mention equal to "all" ignoring case: turn     *)
(* selection returns the whole roster in roster order.                     *)
C15_AllSelectsRoster ==
    (/\ IsCall("GetRespondingModels")
     /\ Len(call.arg.configs) > 0 /\ MentionsAll(call.arg.mentioned))
    => call.out = call.arg.configs

\* "ALL" after another mention, a roster of two
C15_Witness ==
    /\ IsCall("GetRespondingModels")
    /\ call.arg.configs = <<CfgB, CfgA>>
    /\ call.arg.mentioned = <<"a", "ALL">>
    /\ call.out = <<CfgB, CfgA>>

(* C16: no mention is "all", the mention list is not empty: the result is  *)
(* the roster members whose short id or name is a mention ignoring case,   *)
(* each once, in roster order; when there is none, it is the result for    *)
(* the same utterance with no mention.                                     *)
C16_MentionedInRosterOrder ==
    (/\ IsCall("GetRespondingModels")
     /\ Len(call.arg.mentioned) > 0 /\ ~MentionsAll(call.arg.mentioned))
    => LET M == MatchIdx(call.arg.configs, call.arg.mentioned) IN
       IF M # {}
       THEN /\ Len(call.out) = Cardinality(M)
            /\ \A j \in 1..Len(call.out) : call.out[j] = call.arg.configs[Nth(M, j)]
       ELSE call.out = GetRespondingModels(call.arg.configs, <<>>,
                                           ClassifyTask(call.arg.content))

\* the mentions name the two agents by name and by short id, in the order
\* opposite to the roster's
C16_Witness ==
    /\ IsCall("GetRespondingModels")
    /\ call.arg.configs = <<CfgA, CfgB>>
    /\ call.arg.mentioned = <<"BETA", "a">>
    /\ call.out = <<CfgA, CfgB>>

C18_ClassifyStrictMax ==
    IsCall("ClassifyTask") =>
        LET lower == ToLower(call.arg)
            np == Score(lower, planningKeywords)
            nc == Score(lower, codingKeywords)
            nr == Score(lower, reviewKeywords)
            planner == np > 0 /\ np > nc /\ np > nr
            coder == nc > 0 /\ nc > np /\ nc > nr
            reviewer == nr > 0 /\ nr > np /\ nr > nc IN
        /\ call.out = RolePlanner <=> planner
        /\ call.out = RoleCoder <=> coder
        /\ call.out = RoleReviewer <=> reviewer
        /\ call.out = RoleGeneral <=> ~(planner \/ coder \/ reviewer)

\* one planning hit and one coding hit: a tie for the highest count
C18_Witness ==
    /\ IsCall("ClassifyTask")
    /\ Score(ToLower(call.arg), planningKeywords) = 1
    /\ Score(ToLower(call.arg), codingKeywords) = 1
    /\ Score(ToLower(call.arg), reviewKeywords) = 0
    /\ call.out = RoleGeneral

(* C19: StripMentions returns a text without "@" unchanged, and applying   *)
(* it to its own result changes nothing.                                   *)
C19_StripIdentityIdempotent ==
    IsCall("StripMentions") =>
        /\ ~Contains(call.arg, <<"@">>) => call.out = call.arg
        /\ StripMentions(call.out) = call.out

NoMentionSyntax(s) ==
    /\ ~Contains(ToLower(s), <<"@", "a", "l", "l">>)
    /\ \A i \in 1..Len(s) : MentionEnd(s, i) = 0
    /\ \A i \in 1..(Len(s) - 1) : ~(s[i] = "@" /\ s[i + 1] \in NameChars)

(* C20: the prompt made from an utterance holds no mention syntax: no      *)
(* @all, no bracketed @[name] mention, no bare-word @token mention.        *)
C20_PromptHasNoMention ==
    IsCall("StripMentions") => NoMentionSyntax(call.out)

\* no two entries of ms are equal ignoring case
NoFoldDuplicate(ms) ==
    \A i, j \in 1..Len(ms) : ToLower(ms[i]) = ToLower(ms[j]) => i = j

(* C21: the mention list used for turn selection, the explicit list merged *)
(* with the mentions extracted from the utterance, has no two entries      *)
(* equal ignoring case (when the explicit list itself has none).           *)
C21_MergedMentionsUnique ==
    (IsCall("ExtractMentionsFromUserMessage")
     /\ NoFoldDuplicate(call.arg.mentionedModels))
        => NoFoldDuplicate(call.out.allMentions)

\* "@all" stands in s as a whole token: no character of a bare word follows
AllToken(s) ==
    \E i \in 1..(Len(s) - 3) :
        /\ ToLower(SubSeq(s, i, i + 3)) = <<"@">> \o MentionAll
        /\ (i + 4 <= Len(s) => s[i + 4] \notin NameChars)

(* C22: mention extraction reports "all" only when the utterance holds     *)
(* @all as a whole token or names it in brackets, ignoring case; a longer   *)
(* bare word that begins with all does not give "all".                      *)
C22_AllOnlyWholeToken ==
    IsCall("ExtractMentionsFromUserMessage") =>
        ((\E k \in 1..Len(call.out.contentMentions) :
              ToLower(call.out.contentMentions[k]) = MentionAll)
         => \/ AllToken(call.arg.content)
            \/ \E k \in 1..Len(BracketMatches(call.arg.content, 1)) :
                   ToLower(BracketMatches(call.arg.content, 1)[k]) = MentionAll)

Max(S) == CHOOSE x \in S : \A y \in S : y <= x

(* C23: the message list built for an agent is one system message, then    *)
(* one message for each history turn in history order: a user turn gives a *)
(* user message that holds no mention syntax, a turn of this agent an      *)
(* assistant message, a turn of another agent a user message that begins   *)
(* with "[PeerName (#peerShortId)]: "; no turn is dropped or reordered.    *)
C23_MessageList ==
    IsCall("BuildChatMessages") =>
        LET h == call.arg.history
            out == call.out
            me == call.arg.forModel
        IN /\ Len(out) >= 1 + Len(h)
           /\ \A i \in 1..Len(out) : out[i].Role = "system" <=> i = 1
           /\ \A i \in 1..Len(h) :
                 LET t == h[i]
                     m == out[i + 1]
                 IN IF t.Role = UserRole
                    THEN m.Role = "user" /\ NoMentionSyntax(m.Content)
                    ELSE IF t.Role = me.ShortID
                    THEN m.Role = "assistant"
                    ELSE /\ m.Role = "user"
                         /\ IsPrefix(PeerCitation(t.ModelName[1], t.Role, <<>>),
                                     m.Content)

(* C24: the current prompt is appended as one trailing user message        *)
(* exactly when it is not empty and differs from the most recent user turn *)
(* of the history, that turn taken with its mentions stripped; otherwise   *)
(* nothing is appended.                                                    *)
C24_TrailingPrompt ==
    IsCall("BuildChatMessages") =>
        LET h == call.arg.history
            out == call.out
            p == call.arg.currentPrompt
            users == {i \in 1..Len(h) : h[i].Role = UserRole}
            differs == users = {} \/ StripMentions(h[Max(users)].Content) # p
            appended == Len(out) = Len(h) + 2
        IN /\ Len(out) \in {Len(h) + 1, Len(h) + 2}
           /\ appended <=> (p # <<>> /\ differs)
           /\ appended => out[Len(out)] = [Role |-> "user", Content |-> p]

\* the prompt is the latest user turn, which held a mention, and is not
\* appended a second time
C24_Witness ==
    /\ IsCall("BuildChatMessages")
    /\ call.arg.history # <<>>
    /\ LET last == call.arg.history[Len(call.arg.history)] IN
           /\ last.Role = UserRole
           /\ last.Content # call.arg.currentPrompt
           /\ StripMentions(last.Content) = call.arg.currentPrompt
    /\ call.arg.currentPrompt # <<>>
    /\ Len(call.out) = Len(call.arg.history) + 1

\* the history entries of run r, in history order
RunHistory(r) == SelectSeq(History, LAMBDA h : h.run = r)

\* s is t with some of its elements left out
RECURSIVE IsSubSeq(_, _)
IsSubSeq(s, t) ==
    \/ s = <<>>
    \/ /\ t # <<>>
       /\ IF Head(s) = Head(t) THEN IsSubSeq(Tail(s), Tail(t))
          ELSE IsSubSeq(s, Tail(t))

\* the agents whose turns of round n run r committed, in history order
CommittedAgents(r, n) ==
    LET H == SelectSeq(RunHistory(r), LAMBDA h : h.turn > 0 /\ h.RoundNumber = n)
    IN [i \in 1..Len(H) |-> H[i].Role]

(* C25: within a run the user turn is in history before every agent turn   *)
(* of the run, and the agent turns committed in a round are in history in  *)
(* the order in which the agents were selected for the round.              *)
C25_HistoryOrder ==
    \A r \in Runs :
        LET H == RunHistory(r) IN
        /\ H # <<>> => H[1].turn = 0 /\ H[1].Role = "user"
        /\ \A i, j \in 1..Len(H) : i < j => H[i].turn < H[j].turn
        /\ \A i \in 2..Len(H) : H[i].RoundNumber = turns[r][H[i].turn].round
        /\ \A n \in 0..1 :
              IsSubSeq(CommittedAgents(r, n),
                       [i \in 1..Len(RoundAgents(r, n)) |->
                            RoundAgents(r, n)[i].ShortID])

\* a run committed the turns of two different agents in one round
C25_Witness ==
    \E r \in Runs :
        LET H == RunHistory(r) IN
        /\ Len(H) >= 3
        /\ H[2].RoundNumber = H[3].RoundNumber
        /\ H[2].Role # H[3].Role

(* ------------------------- the providers ------------------------------ *)
(* C26: with the local provider registered, whatever cloud providers are   *)
(* registered, a model id accepted by a registered provider is accepted by *)
(* one registered provider only.                                           *)
C26_OneProviderAccepts ==
    "ollama" \in providers =>
        \A modelID \in ModelIDs :
            Cardinality({p \in providers : SupportsModel(p, modelID)}) <= 1

IsSuffix(s, t) == Len(s) <= Len(t) /\ SubSeq(t, Len(t) - Len(s) + 1, Len(t)) = s

\* the dispatch called no provider and returned the error that names the id
NoProviderError(out, modelID) ==
    /\ out.provider = "nil"
    /\ out.err # "nil"
    /\ IsSuffix(modelID, out.errText)
    /\ out.deltas = <<>>

(* C27: the dispatch of a model id that no registered provider accepts     *)
(* returns an error that names the id, calls no provider and delivers no   *)
(* delta; so does the dispatch of the prefixed id of a provider that is     *)
(* not registered any more.                                                *)
C27_NoProviderError ==
    IsCall("StreamChatToProvider") =>
        /\ (\A p \in providers : ~SupportsModel(p, call.arg.modelID))
                => NoProviderError(call.out, call.arg.modelID)
        /\ \A name \in ProviderNames \ providers :
                HasPrefix(call.arg.modelID, <<name, ":">>)
                    => NoProviderError(call.out, call.arg.modelID)

\* the local provider, registered at the start, has been unregistered, and
\* one of its prefixed ids is dispatched while cloud providers are registered
C27_Witness ==
    /\ IsCall("StreamChatToProvider")
    /\ "ollama" \notin providers
    /\ providers # {}
    /\ HasPrefix(call.arg.modelID, <<"ollama", ":">>)
    /\ call.out.provider = "nil"

(* C28: for every provider client, SupportsModel is true of every id its   *)
(* ListModels returns, and of every id "<provider name>:<model>".          *)
C28_ListedAndPrefixedSupported ==
    /\ IsCall("ListModels") =>
            \A i \in 1..Len(call.out) : SupportsModel(call.arg.name, call.out[i])
    /\ IsCall("SupportsModel") =>
            (HasPrefix(call.arg.modelID, <<call.arg.name, ":">>) => call.out)

(* C29: for every provider client, a response with a status outside 2xx    *)
(* makes StreamChat return an error and deliver no delta, so that the turn *)
(* ends as an error turn.                                                  *)
C29_BadStatusIsError ==
    (IsCall("StreamChat") /\ call.arg.response.status \notin 200..299) =>
        /\ call.out.err # "nil"
        /\ call.out.deltas = <<>>
        /\ IsErrorTurn(call.out.err, FullResponse(call.out.deltas))

(* C30: the token rate of a chunk is 0 when the token count is 0 or no     *)
(* time has elapsed since the dispatch, is never negative, and is          *)
(* otherwise the token count divided by the whole time elapsed since the   *)
(* dispatch, the time spent paused included.                               *)
C30_TokenRate ==
    IsCall("flushBuffer") =>
        LET tokens == call.arg.totalTokens
            whole == call.arg.now - call.arg.startTime
            rate == call.out
        IN /\ rate.den > 0 /\ rate.num >= 0
           /\ (tokens = 0 \/ whole = 0) => rate.num = 0
           /\ (tokens > 0 /\ whole > 0) => rate.num * whole = tokens * rate.den

\* a flush of a turn that was paused for a part of the time elapsed
C30_Witness ==
    /\ IsCall("flushBuffer")
    /\ call.arg.totalTokens = 2
    /\ call.arg.paused > 0 /\ call.arg.paused < call.arg.now - call.arg.startTime
    /\ call.out.num * (call.arg.now - call.arg.startTime) = 2 * call.out.den

(* ------------------- commands and the reset of a run ------------------ *)
\* the control loop has answered a command of the given kind that it read
\* after the user_message of run r
AnsweredSince(r, answer) ==
    \E i \in (run[r].ctlAt + 1)..Len(ctl) : ctl[i] = answer

(* C33: the reset a run makes when it starts does not clear a stop flag or *)
(* a pause flag that is set and that a stop or pause command read after    *)
(* the run's user_message has set.                                         *)
C33_ResetKeepsLaterCommands ==
    [][\A r \in Runs :
        run[r].pc = "begin" /\ run'[r].pc # "begin" =>
            /\ (stopRequested /\ AnsweredSince(r, "stopped")) => stopRequested'
            /\ (pauseRequested /\ AnsweredSince(r, "paused")) => pauseRequested']_vars

(* --------------------------- termination ------------------------------ *)
\* run r has written its token_usage event and returned
Ended(r) ==
    /\ run[r].pc = "done"
    /\ LastEvent(events[r]).type = "token_usage"

\* every pause is followed by a resume or a stop (or by the reset of a run)
PauseAnswered == [](pauseRequested => <>(~pauseRequested \/ stopRequested))

(* C34: when every pause is followed by a resume or a stop, every run that *)
(* has been started writes its token_usage event and ends; a stop issued   *)
(* while the run waits in a pause ends it with no resume.                  *)
C34_RunEnds ==
    PauseAnswered => \A r \in Runs : (run[r].pc = "begin" ~> Ended(r))

\* a run has ended while the pause flag and the stop flag are set: it was
\* paused, then stopped, and no resume was processed
C34_Witness ==
    /\ Ended(1)
    /\ pauseRequested /\ stopRequested
    /\ ctl = <<"ready", "paused", "stopped">>
    /\ Cur(1) >= 1

(* ----------------------- the rounds of a run -------------------------- *)
\* the round_start, round_end and token_usage events among ev
Brackets(ev) ==
    SelectSeq(ev, LAMBDA e : e.type \in {"round_start", "round_end", "token_usage"})

\* the i-th bracket event of a run: round_start{0}, round_end{0},
\* round_start{1}, round_end{1}, ...
BracketAt(B, i) ==
    \/ B[i].type = "round_start" /\ i % 2 = 1 /\ B[i].round = (i - 1) \div 2
    \/ B[i].type = "round_end" /\ i % 2 = 0 /\ B[i].round = (i - 2) \div 2
    \/ B[i].type = "token_usage" /\ i % 2 = 1 /\ i = Len(B) /\ i > 1

\* an event of an agent lies between the round_start and the round_end of
\* its round
InsideRound(ev, i) ==
    /\ \E j \in 1..(i - 1) :
            ev[j].type = "round_start" /\ ev[j].round = ev[i].round
    /\ \A j \in 1..(i - 1) :
            ~(ev[j].type \in {"round_end", "token_usage"}
              /\ (ev[j].type = "round_end" => ev[j].round = ev[i].round))

(* C35: the events of a run are round_start{0}, the agent events of round  *)
(* 0, round_end{0}, then the same for the rounds 1, 2, ... in increasing   *)
(* order, and one token_usage event at the end; a run that has ended, also *)
(* after a stop, has closed every round it opened.                         *)
C35_RoundBrackets ==
    \A r \in Runs :
        LET ev == events[r]
            B == Brackets(ev) IN
        /\ \A i \in 1..Len(B) : BracketAt(B, i)
        /\ \A i \in 1..Len(ev) : ev[i].turn # 0 => InsideRound(ev, i)
        /\ run[r].pc = "done" =>
                /\ Len(B) >= 3
                /\ B[Len(B)].type = "token_usage"
                /\ LastEvent(ev).type = "token_usage"

(* ------------------------ the deltas of a stream ---------------------- *)
(* C36: a StreamChat call delivers at most one final delta and no delta    *)
(* after it, whatever the lines of the stream, malformed lines included.   *)
C36_OneFinalDelta ==
    IsCall("StreamChat") =>
        LET d == call.out.deltas IN
        \A i \in 1..Len(d) : d[i].final => i = Len(d)

\* a cloud client has read a stream in which a line follows the line that
\* ends the stream: the final delta is the only one delivered
C36_Witness ==
    /\ IsCall("StreamChat")
    /\ call.arg.name \in {"openai", "anthropic", "gemini"}
    /\ call.arg.response.status = StatusOK
    /\ \E i \in 1..(Len(call.arg.response.body) - 1) :
            call.arg.response.body[i] = "final"
    /\ Len(call.out.deltas) = 1
    /\ call.out.deltas[1].final

(* ---------------------- the content of a turn ------------------------- *)
(* C37: every agent turn in the history and every complete event has a     *)
(* non-empty content: a turn whose stream ended with no accumulated text   *)
(* is not committed, whether the provider call returned an error or nil.   *)
C37_NoEmptyCommit ==
    /\ \A i \in 1..Len(History) :
            History[i].Role # "user" => History[i].Content # <<>>
    /\ \A r \in Runs : \A i \in 1..Len(events[r]) :
            events[r][i].type = "complete" => events[r][i].content # <<>>

(* ------------------------ the shared fields --------------------------- *)
(* C38: no field of the Orchestrator is read by a run while the control    *)
(* loop or another run writes it, unless both accesses hold o.mu.          *)
C38_NoDataRace ==
    \A r \in Runs :
        \A a \in StepAccesses(run[r].pc) : \A b \in Concurrent(r) :
            (a.kind = "read" /\ b.kind = "write" /\ a.field = b.field)
                => (a.locked /\ b.locked)

(* ------------------------- pause and resume --------------------------- *)
\* the step is the control loop processing a pause or a resume
PauseOrResume ==
    ctl' = Append(ctl, "paused") \/ ctl' = Append(ctl, "resumed")

(* C39: a pause and a resume change the pause flag only: the stop flag,    *)
(* the context and its cancellation, the history and the roster are left   *)
(* as they are, and with the stop flag set no run starts a turn in the     *)
(* step that follows a resume.                                             *)
C39_PauseResumeOnlyPause ==
    /\ [][PauseOrResume =>
            UNCHANGED <<stopRequested, ctx, cancelled, History, ModelConfigs,
                        AutonomyRounds>>]_vars
    /\ [][\A r \in Runs :
            (stopRequested /\ LastEvent(ctl) = "resumed" /\ run[r].pc # "think")
                => run'[r].pc # "think"]_vars

\* a resume has been processed after a stop while the stopped run was still
\* unwinding: the stop flag is set
C39_Witness ==
    /\ ctl = <<"ready", "stopped", "resumed">>
    /\ stopRequested /\ ~pauseRequested
    /\ 1 \in stopSeen
    /\ run[1].pc \in {"stream", "cbChk", "after", "loopChk", "genChk"}

(* ----------------------- the flush goroutine -------------------------- *)
(* C40: when a turn has ended, with a complete event, an error event or    *)
(* after a stop, its flush goroutine has returned, and no event of the     *)
(* turn is written afterwards.                                             *)
C40_FlushTaskEnds ==
    /\ [](\A rk \in AllTurns :
            TurnOver(rk[1], rk[2]) => turns[rk[1]][rk[2]].tpc = "exit")
    /\ [][\A rk \in AllTurns :
            TurnOver(rk[1], rk[2]) =>
                TurnEvents(events'[rk[1]], rk[2]) = TurnEvents(events[rk[1]], rk[2])]_vars

(* ------------------------- the roster repair -------------------------- *)
(* C31: the repaired roster has the length and the order of the roster     *)
(* repaired, its short ids are pairwise distinct, and every entry keeps    *)
(* every field other than the short id.                                    *)
C31_RepairedRoster ==
    IsCall("fixDuplicateShortIds") =>
        LET in == call.arg
            out == call.out
        IN /\ Len(out) = Len(in)
           /\ \A i \in 1..Len(in) :
                 [out[i] EXCEPT !.short_id = in[i].short_id] = in[i]
           /\ \A i, j \in 1..Len(out) :
                 out[i].short_id = out[j].short_id => i = j

\* a roster with three entries of one short id has been repaired
C31_Witness ==
    /\ IsCall("fixDuplicateShortIds")
    /\ Len(call.arg) = 3
    /\ \A i \in 1..3 : call.arg[i].short_id = call.arg[1].short_id
    /\ call.out # call.arg

(* C32: the repair gives a new short id only to an entry whose short id is *)
(* that of an earlier entry of the roster repaired: an entry whose short    *)
(* id is unique in that roster keeps it.                                   *)
C32_RepairOnlyDuplicates ==
    IsCall("fixDuplicateShortIds") =>
        \A i \in 1..Len(call.arg) :
            call.out[i].short_id # call.arg[i].short_id
                => \E j \in 1..(i - 1) : call.arg[j].short_id = call.arg[i].short_id

====
